---- MODULE Spec2Model ----
(***************************************************************************)
(* A state-machine model of the umetex layout-preserving translation       *)
(* engine (sergeychernyakov/umetex).                                       *)
(*                                                                         *)
(* The module holds several specifications, one per component:             *)
(*   SpecTT      the Translation Gateway (TextTranslator.translate_texts)  *)
(*               with the phrase cache (TranslationPhrase) and a racing    *)
(*               second run saving phrases                                 *)
(*   SpecIns     the Layout Reinserter's retry loop                        *)
(*               (PDFTranslator._apply_translated_text)                    *)
(*   SpecInsFair the same with weak fairness of the loop's step            *)
(*   SpecRun     one run of Document.translate / translate_pdf             *)
(*   SpecUpload  the upload view and the threads it starts                 *)
(*   SpecImg     the image blocks of a run and the image cache             *)
(*               (PDFTranslator._process_image_block)                      *)
(*   SpecOa      the retry loop of ImageTranslatorWithOpenAI               *)
(*   SpecFn      the pure functions: find_font_path, block merging,        *)
(*               normalize_color, calculate_rotation_angle                 *)
(*   SpecFm      the shared memo of FontManager.supports_cyrillic          *)
(*   SpecPg      the units of a page: collected in translate_pdf, placed   *)
(*               in _apply_translated_texts                                *)
(* Every specification initialises all variables; the variables of the     *)
(* components a specification does not exercise stay at their idle value.  *)
(***************************************************************************)
EXTENDS Integers, Sequences, FiniteSets, TLC

(***************************************************************************)
(* Bounds of the model.                                                    *)
(***************************************************************************)
\* longest batch of texts handed to translate_texts
MaxBatch == 2
\* most rows the runs may insert into the phrase table
MaxNewRows == 2

(***************************************************************************)
(* Strings are sequences of one-character strings, so that the regular     *)
(* expressions and the casing functions of the source are computed, not    *)
(* assumed.  Latin letters stand for any cased letters (the source's       *)
(* classes also hold the Cyrillic ones).                                   *)
(***************************************************************************)
UpperSeq == <<"A","B","C","D","E","F","G","H","I","J","K","L","M",
              "N","O","P","Q","R","S","T","U","V","W","X","Y","Z">>

LowerSeq == <<"a","b","c","d","e","f","g","h","i","j","k","l","m",
              "n","o","p","q","r","s","t","u","v","w","x","y","z">>

Digits == {"0","1","2","3","4","5","6","7","8","9"}

IsUpper(c) == \E i \in 1..Len(UpperSeq) : UpperSeq[i] = c

IsLower(c) == \E i \in 1..Len(LowerSeq) : LowerSeq[i] = c

IsAlpha(c) == IsUpper(c) \/ IsLower(c)

IsDigit(c) == c \in Digits

\* \s
IsSpace(c) == c \in {" ", "\n", "\t"}

\* \w
IsWord(c) == IsAlpha(c) \/ IsDigit(c) \/ c = "_"

\* str.upper() / str.lower() on one character
ToUpper(c) == IF IsLower(c)
              THEN UpperSeq[CHOOSE i \in 1..Len(LowerSeq) : LowerSeq[i] = c]
              ELSE c

ToLower(c) == IF IsUpper(c)
              THEN LowerSeq[CHOOSE i \in 1..Len(UpperSeq) : UpperSeq[i] = c]
              ELSE c

\* s[from:] (1-based, from may be Len(s)+1)
Drop(s, n) == SubSeq(s, n + 1, Len(s))

\* the character classes the source's regular expressions use
InClass(cls, c) ==
    CASE cls = "space"    -> IsSpace(c)                       \* \s
      [] cls = "nonspace" -> ~IsSpace(c)                      \* \S
      [] cls = "digit"    -> IsDigit(c)                       \* \d
      [] cls = "nonword"  -> ~IsWord(c)                       \* \W
      [] cls = "wordhyph" -> IsWord(c) \/ c = "-"             \* [\w-]
      [] cls = "alpha"    -> IsAlpha(c)                       \* [A-Za-z...]
      [] cls = "nonalpha" -> ~IsAlpha(c)
      [] cls = "codehead" -> IsDigit(c) \/ c \in {"-", "/", ".", ":"}
      [] cls = "codetail" -> IsWord(c) \/ c \in {"-", "/", ".", ":"}

\* number of characters of s from position i on that lie in the class
\* (what a greedy cls* consumes at i)
RECURSIVE SpanLen(_, _, _)
SpanLen(s, i, cls) ==
    IF i <= Len(s) /\ InClass(cls, s[i]) THEN 1 + SpanLen(s, i + 1, cls) ELSE 0

RECURSIVE LStrip(_)
LStrip(s) == IF s # <<>> /\ IsSpace(s[1]) THEN LStrip(Tail(s)) ELSE s

RECURSIVE RStrip(_)
RStrip(s) == IF s # <<>> /\ IsSpace(s[Len(s)])
             THEN RStrip(SubSeq(s, 1, Len(s) - 1)) ELSE s

\* str.strip()
Strip(s) == RStrip(LStrip(s))

\* len(str.split()): the number of maximal runs of non-whitespace
RECURSIVE WordCount(_)
WordCount(s) ==
    LET t == LStrip(s)
        n == SpanLen(t, 1, "nonspace")
    IN  IF t = <<>> THEN 0 ELSE 1 + WordCount(Drop(t, n))

\* str.capitalize(): first character upper-cased, the rest lower-cased
Capitalize(s) ==
    [i \in 1..Len(s) |-> IF i = 1 THEN ToUpper(s[i]) ELSE ToLower(s[i])]

\* str.islower(): at least one cased character and no upper-case one
StrIsLower(s) == /\ \E i \in 1..Len(s) : IsLower(s[i])
                 /\ \A i \in 1..Len(s) : ~IsUpper(s[i])

\* str.istitle(): upper-case letters only after uncased characters,
\* lower-case letters only after cased ones, at least one cased character
StrIsTitle(s) ==
    /\ \E i \in 1..Len(s) : IsAlpha(s[i])
    /\ \A i \in 1..Len(s) :
          LET prevCased == i > 1 /\ IsAlpha(s[i - 1])
          IN  /\ IsUpper(s[i]) => ~prevCased
              /\ IsLower(s[i]) => prevCased

(***************************************************************************)
(* The texts of the model.                                                 *)
(***************************************************************************)
\* Python's None where a string is expected (no real string equals it)
NoneStr == <<"None">>

\* "" 
EmptyStr == <<>>

\* a document code, "12-3": a verbatim unit
TxtCode == <<"1", "2", "-", "3">>

\* "Cat": a title-case unit
TxtTitle == <<"C", "a", "t">>

\* "cat"
TxtLower == <<"c", "a", "t">>

\* the texts a batch is drawn from
TextUniverse == {TxtCode, TxtTitle, TxtLower}

\* "kot", "KOT", "1 kOT": translations
TrLower == <<"k", "o", "t">>

TrUpper == <<"K", "O", "T">>

TrNumbered == <<"1", " ", "k", "O", "T">>

\* " ": a bracket content of white space only
TrBlank == <<" ">>

\* a translation of eight words, "a a a a a a a a"
TrLong == <<"a", " ", "a", " ", "a", " ", "a", " ", "a", " ", "a", " ", "a", " ", "a">>

(***************************************************************************)
(* Languages: LANGUAGES of backend/models/document.py, cut to the codes    *)
(* the model uses.                                                         *)
(***************************************************************************)
\* Python's None where a language code is expected
NoLang == "None"

LANGUAGES == {"RU", "EN"}

\* the target language of the runs of the model
TargetLangs == {"RU"}

\* the language codes a response may name: one of LANGUAGES and one that is not
MarkerCodes == {"EN", "XX"}

\* TextTranslator.__init__'s default: no caller passes shorten_words
shorten_words == FALSE

(***************************************************************************)
(* Pure functions of TextTranslator.                                       *)
(***************************************************************************)
\* non_translatable_pattern.match(text):
\*   ^\s*[\d\-\/.:]+[\d\w\-\/.:]*\s*$
NonTranslatable(text) ==
    LET a == SpanLen(text, 1, "space")
        h == SpanLen(text, a + 1, "codehead")
        t == SpanLen(text, a + h + 1, "codetail")
        z == SpanLen(text, a + h + t + 1, "space")
    IN  h >= 1 /\ a + h + t + z = Len(text)

\* is_title_case: the first run of letters is one upper-case letter followed
\* by lower-case ones (word[1:].islower() is false for an empty rest)
is_title_case(text) ==
    LET p == SpanLen(text, 1, "nonalpha")
        n == SpanLen(text, p + 1, "alpha")
        word == SubSeq(text, p + 1, p + n)
    IN  /\ n >= 1
        /\ IsUpper(word[1])
        /\ StrIsLower(Tail(word))

\* the length matched at position i by (\W*\d+[\w-]*\s*)+ (0: no match)
RECURSIVE NumberingLen(_, _)
NumberingLen(s, i) ==
    LET a == SpanLen(s, i, "nonword")
        d == SpanLen(s, i + a, "digit")
        w == SpanLen(s, i + a + d, "wordhyph")
        z == SpanLen(s, i + a + d + w, "space")
        g == a + d + w + z
    IN  IF d = 0 THEN 0 ELSE g + NumberingLen(s, i + g)

\* apply_format(translated_text, original_text) of a translator for lang
apply_format(lang, translated_text, original_text) ==
    IF is_title_case(original_text) /\ lang = "RU"
    THEN LET m == NumberingLen(translated_text, 1)
         IN  IF m > 0
             THEN SubSeq(translated_text, 1, m)
                    \o Capitalize(Strip(Drop(translated_text, m)))
             ELSE Capitalize(translated_text)
    ELSE IF StrIsTitle(original_text) /\ lang = "RU"
         THEN Capitalize(translated_text)
         ELSE translated_text

\* match_source_language(detected_language)
match_source_language(code) == IF code \in LANGUAGES THEN code ELSE NoLang

\* a filter that keeps blank entries
NonEmptyMatches_KeepBlank(matches) == matches

\* [match.strip() for match in matches if match.strip()]
RECURSIVE NonEmptyMatches(_)
NonEmptyMatches(matches) ==
    IF matches = <<>> THEN <<>>
    ELSE IF Strip(Head(matches)) # EmptyStr
         THEN <<Strip(Head(matches))>> \o NonEmptyMatches(Tail(matches))
         ELSE NonEmptyMatches(Tail(matches))

\* 1 <= len(translation.split()) <= 7: the translation is saved as a phrase
MaxPhraseWords == 7

IsShortPhrase(translation) ==
    /\ ~shorten_words
    /\ 1 <= WordCount(translation)
    /\ WordCount(translation) <= MaxPhraseWords

(***************************************************************************)
(* State.                                                                  *)
(***************************************************************************)
VARIABLES
    \* --- phrase cache and Translation Gateway ---
    cache,      \* the TranslationPhrase table: a set of rows
    nextId,     \* the next primary key the table hands out
    gw,         \* a run's TextTranslator and its translate_texts call
    racer,      \* a second run (another document's thread) translating one text
    \* --- Layout Reinserter ---
    ins,        \* one call of PDFTranslator._apply_translated_text
    \* --- a run of Document.translate ---
    run,        \* the thread running Document.translate for one document
    \* --- the upload view ---
    up,         \* the requests, documents and translation threads of the server
    \* --- image blocks of a PDF run ---
    img,        \* a PDFTranslator's image cache and its image translation calls
    \* --- the OpenAI image translator ---
    oa,         \* one call of ImageTranslatorWithOpenAI.translate_image
    \* --- pure functions ---
    fn,         \* the last application of a pure function: name, input, result
    \* --- the memo of supports_cyrillic ---
    fm,         \* FontManager.cyrillic_support_cache and the callers of the check
    \* --- the text units of a page ---
    pg          \* the blocks of a page: collected, translated and placed

ttVars == <<cache, nextId, gw, racer>>

(***************************************************************************)
(* The phrase cache: TranslationPhrase rows                                *)
(*   [id, src (source_language or NoLang), tgt, phrase, tr].               *)
(***************************************************************************)
Row(id, src, tgt, phrase, tr) ==
    [id |-> id, src |-> src, tgt |-> tgt, phrase |-> phrase, tr |-> tr]

\* TranslationPhrase.objects.filter(target_language=, source_phrase=)
DbGet(tgt, phrase) == {r \in cache : r.tgt = tgt /\ r.phrase = phrase}

\* Meta.unique_together = (source_language, target_language, source_phrase):
\* would writing row r break the table's unique constraint?  SQL compares no
\* NULL equal to another, so rows without a source language never collide.
ViolatesUnique(r) ==
    /\ r.src # NoLang
    /\ \E o \in cache : /\ o.id # r.id
                        /\ o.src = r.src /\ o.tgt = r.tgt /\ o.phrase = r.phrase

\* get_predefined_translation(text): [raised, value]; objects.get raises
\* MultipleObjectsReturned, which the method does not catch, on two rows
get_predefined_translation(lang, text) ==
    LET rows == DbGet(lang, text)
    IN  IF Cardinality(rows) = 0 THEN [raised |-> FALSE, value |-> NoneStr]
        ELSE IF Cardinality(rows) = 1
             THEN [raised |-> FALSE, value |-> (CHOOSE r \in rows : TRUE).tr]
             ELSE [raised |-> TRUE, value |-> NoneStr]

\* the decision of save_translated_phrase once get_or_create returned an
\* existing row (created = False): the row to write, or none
\*   elif phrase.source_language is None and self.source_language
BackfillNeeded(row, source_language) ==
    row.src = NoLang /\ source_language # NoLang

\* rows a deployment starts with (phrases entered beforehand), one per key:
\* a title-case phrase, a document code, and the same phrase for another
\* target language
SeedRows == {
    Row(1, NoLang, "RU", TxtTitle, TrNumbered),
    Row(2, NoLang, "RU", TxtCode, TrLower),
    Row(3, "RU", "EN", TxtTitle, TrLower) }

\* the tables a deployment may start with
SeedTables == {{}, SeedRows}

\* primary keys are handed out in order
FirstFreeId == Cardinality(SeedRows) + 1

(***************************************************************************)
(* translate_texts, step by step.                                          *)
(*   gw.pc: idle -> classified -> parse (<-> save_create, save_write)      *)
(*          -> done | raised                                               *)
(* Positions are 1-based: position i is the source's index i-1.            *)
(***************************************************************************)
GwIdle(lang, sl) ==
    [pc |-> "idle", lang |-> lang, source_language |-> sl,
     texts |-> <<>>, all_texts |-> <<>>, lookup |-> <<>>,
     indices_mapping |-> <<>>, prompt |-> <<>>, calls |-> 0,
     matches |-> <<>>, k |-> 0, translation |-> NoneStr,
     snap |-> Row(0, NoLang, lang, EmptyStr, EmptyStr), err |-> "none"]

\* a classification that consults the cache before the verbatim pattern
ClassOf_CacheFirst(lang, text) ==
    LET pre == get_predefined_translation(lang, text).value
    IN  IF pre # NoneStr /\ pre # EmptyStr THEN "cached"
        ELSE IF NonTranslatable(text) THEN "verbatim"
        ELSE "send"

\* the branch the classification loop takes for one text (lines 113-129)
ClassOf(lang, text) ==
    LET pre == IF shorten_words THEN NoneStr
               ELSE get_predefined_translation(lang, text).value
    IN  IF NonTranslatable(text) THEN "verbatim"
        ELSE IF pre # NoneStr /\ pre # EmptyStr THEN "cached"
        ELSE "send"

\* all_texts[i] after the classification loop
ClassResult(lang, text) ==
    CASE ClassOf(lang, text) = "verbatim" -> text
      [] ClassOf(lang, text) = "cached" ->
             apply_format(lang, get_predefined_translation(lang, text).value, text)
      [] OTHER -> NoneStr

\* the positions of texts with the given class, in order
RECURSIVE PositionsOf(_, _, _, _)
PositionsOf(lang, texts, i, cls) ==
    IF i > Len(texts) THEN <<>>
    ELSE (IF ClassOf(lang, texts[i]) = cls THEN <<i>> ELSE <<>>)
            \o PositionsOf(lang, texts, i + 1, cls)

\* the rows the table held for each text when the loop looked it up
LookupOf(lang, texts) == [i \in 1..Len(texts) |-> DbGet(lang, texts[i])]

\* batches: all sequences of at most MaxBatch texts
Batches == UNION {[1..n -> TextUniverse] : n \in 0..MaxBatch}

\* lines 105-133: the classification loop and the early return
GwStart(texts) ==
    /\ gw.pc \in {"idle", "done"}
    /\ LET lang == gw.lang
           looked == ~shorten_words
           raises == looked /\ \E i \in 1..Len(texts) :
                         get_predefined_translation(lang, texts[i]).raised
           im == PositionsOf(lang, texts, 1, "send")
           base == [GwIdle(lang, gw.source_language) EXCEPT !.texts = texts]
       IN  gw' = IF raises
                 THEN [base EXCEPT !.pc = "raised",
                                   !.err = "MultipleObjectsReturned",
                                   !.lookup = LookupOf(lang, texts)]
                 ELSE [base EXCEPT
                         !.pc = IF im = <<>> THEN "done" ELSE "classified",
                         !.lookup = LookupOf(lang, texts),
                         !.indices_mapping = im,
                         !.all_texts = [i \in 1..Len(texts) |->
                                           ClassResult(lang, texts[i])]]
    /\ UNCHANGED <<cache, nextId, racer>>

\* random.shuffle: every order of the positions 1..n
Perms(n) == {f \in [1..n -> 1..n] : \A i, j \in 1..n : i # j => f[i] # f[j]}

\* re.findall(pattern, translated_text) for one placeholder: the bracket
\* contents of the response's entries with that index, in order
MatchLists == {<<>>, <<TrBlank>>, <<TrBlank, TrLower>>, <<TrLong>>}

\* find_phrases_in_combined_text builds an Aho-Corasick automaton from the
\* rows of the target language; with no row the automaton is empty,
\* make_automaton() leaves it a trie and iter() raises AttributeError in
\* pyahocorasick.  The outcome rests on the library build: both are kept.
AutomatonEmpty(lang) == ~\E r \in cache : r.tgt = lang

\* lines 141: find_phrases_in_combined_text raises on an empty automaton
GwAhoFail ==
    /\ gw.pc = "classified"
    /\ AutomatonEmpty(gw.lang)
    /\ gw' = [gw EXCEPT !.pc = "raised", !.err = "AttributeError"]
    /\ UNCHANGED <<cache, nextId, racer>>

\* line 181: the outbound call raises; translate_text has no handler
GwServiceFail ==
    /\ gw.pc = "classified"
    /\ gw' = [gw EXCEPT !.pc = "raised", !.err = "ServiceError", !.calls = 1]
    /\ UNCHANGED <<cache, nextId, racer>>

\* a placeholder numbered by its place in the prompt
PromptIndex_Position(indices_mapping, order, j) == indices_mapping[j]

\* original_index = indices_mapping[i] for the j-th shuffled index i
PromptIndex(indices_mapping, order, j) == indices_mapping[order[j]]

\* lines 135-192: shuffle, build the prompt, call the service, read the
\* source-language marker.  The prompt lists the units in shuffled order
\* under their original index.
GwCall(order, marker) ==
    /\ gw.pc = "classified"
    /\ LET n == Len(gw.indices_mapping)
       IN  /\ order \in Perms(n)
           /\ gw' = [gw EXCEPT
                 !.pc = "parse",
                 !.calls = 1,
                 !.prompt = [j \in 1..n |->
                               [index |-> PromptIndex(gw.indices_mapping, order, j),
                                text |-> gw.texts[gw.indices_mapping[order[j]]]]],
                 !.matches = [i \in 1..Len(gw.texts) |-> <<>>],
                 !.k = 1,
                 !.source_language =
                     IF marker = NoLang THEN gw.source_language
                     ELSE match_source_language(marker)]
    /\ UNCHANGED <<cache, nextId, racer>>

\* the unit the parse loop is at
CurIndex == gw.prompt[gw.k].index

\* lines 210/213 and the loop's advance: the unit's result is stored
FinishUnit(g, value) ==
    [g EXCEPT !.all_texts[g.prompt[g.k].index] = value,
              !.k = g.k + 1,
              !.translation = NoneStr,
              !.snap = Row(0, NoLang, g.lang, EmptyStr, EmptyStr),
              !.pc = IF g.k = Len(g.prompt) THEN "done" ELSE "parse"]

\* lines 195-213, one iteration, up to and including get_or_create's SELECT.
\* found is re.findall's result for the unit's pattern.  The response is
\* fixed by the call; since the loop reads each placeholder's matches once,
\* the model draws them when they are read and records them in gw.matches.
GwParse(found) ==
    /\ gw.pc = "parse"
    /\ LET index == CurIndex
           original == gw.texts[index]
           rows == DbGet(gw.lang, original)
           non_empty_matches == NonEmptyMatches(found)
           g0 == [gw EXCEPT !.matches[index] = found]
       IN  IF non_empty_matches = <<>>
           THEN \* no match: fall back to the original text
                gw' = FinishUnit(g0, original)
           ELSE LET translation == non_empty_matches[1]
                    g == [g0 EXCEPT !.translation = translation]
                IN  IF ~IsShortPhrase(translation)
                    THEN gw' = FinishUnit(g, translation)
                    ELSE IF Cardinality(rows) > 1
                    THEN gw' = [g EXCEPT !.pc = "raised",
                                         !.err = "MultipleObjectsReturned"]
                    ELSE IF Cardinality(rows) = 0
                    THEN gw' = [g EXCEPT !.pc = "save_create"]
                    ELSE LET row == CHOOSE r \in rows : TRUE
                         IN  IF BackfillNeeded(row, gw.source_language)
                             THEN gw' = [g EXCEPT !.pc = "save_write",
                                     !.snap = [row EXCEPT
                                                 !.src = gw.source_language]]
                             ELSE gw' = FinishUnit(g, translation)
    /\ UNCHANGED <<cache, nextId, racer>>

\* get_or_create's INSERT: the row is created with the model's defaults
\* (no source language, an empty translated phrase)
GwCreate ==
    /\ gw.pc = "save_create"
    /\ nextId < FirstFreeId + MaxNewRows
    /\ LET row == Row(nextId, NoLang, gw.lang, gw.texts[CurIndex], EmptyStr)
       IN  /\ cache' = cache \cup {row}
           /\ gw' = [gw EXCEPT !.pc = "save_write",
                       !.snap = [row EXCEPT !.tr = gw.translation,
                                            !.src = gw.source_language]]
    /\ nextId' = nextId + 1
    /\ UNCHANGED racer

\* phrase.save(): UPDATE of every field of the row with the instance's values
DbUpdate(snap) == {r \in cache : r.id # snap.id} \cup {snap}

GwWrite ==
    /\ gw.pc = "save_write"
    /\ IF ViolatesUnique(gw.snap)
       THEN /\ gw' = [gw EXCEPT !.pc = "raised", !.err = "IntegrityError"]
            /\ UNCHANGED cache
       ELSE /\ cache' = DbUpdate(gw.snap)
            /\ gw' = FinishUnit(gw, gw.translation)
    /\ UNCHANGED <<nextId, racer>>

\* a new run: PDFTranslator.__init__ builds a TextTranslator for the
\* document's language; source_language starts as None
GwNew(lang) ==
    /\ gw.pc \in {"done", "raised"}
    /\ gw' = GwIdle(lang, NoLang)
    /\ UNCHANGED <<cache, nextId, racer>>

(***************************************************************************)
(* A second run: the thread of another document, translating into RU,      *)
(* whose translate_texts call holds one text.  It runs the same code:      *)
(* lookup, service call, save_translated_phrase.                           *)
(***************************************************************************)
RacerLang == "RU"

RacerIdle == [pc |-> "idle", source_language |-> NoLang, phrase |-> EmptyStr,
              translation |-> NoneStr,
              snap |-> Row(0, NoLang, RacerLang, EmptyStr, EmptyStr)]

\* lines 113-192 for the batch [phrase]: the text is neither verbatim nor
\* cached, the service answers with a short translation
RcLookup(phrase, marker) ==
    /\ racer.pc = "idle"
    /\ ~get_predefined_translation(RacerLang, phrase).raised
    /\ ClassOf(RacerLang, phrase) = "send"
    /\ racer' = [RacerIdle EXCEPT !.pc = "called", !.phrase = phrase,
                    !.translation = TrUpper,
                    !.source_language = match_source_language(marker)]
    /\ UNCHANGED <<cache, nextId, gw>>

\* save_translated_phrase: get_or_create's SELECT and the decision
RcSaveGet ==
    /\ racer.pc = "called"
    /\ LET rows == DbGet(RacerLang, racer.phrase)
       IN  IF Cardinality(rows) > 1 THEN racer' = RacerIdle
           ELSE IF Cardinality(rows) = 0
           THEN racer' = [racer EXCEPT !.pc = "save_create"]
           ELSE LET row == CHOOSE r \in rows : TRUE
                IN  IF BackfillNeeded(row, racer.source_language)
                    THEN racer' = [racer EXCEPT !.pc = "save_write",
                            !.snap = [row EXCEPT !.src = racer.source_language]]
                    ELSE racer' = RacerIdle
    /\ UNCHANGED <<cache, nextId, gw>>

RcCreate ==
    /\ racer.pc = "save_create"
    /\ nextId < FirstFreeId + MaxNewRows
    /\ LET row == Row(nextId, NoLang, RacerLang, racer.phrase, EmptyStr)
       IN  /\ cache' = cache \cup {row}
           /\ racer' = [racer EXCEPT !.pc = "save_write",
                          !.snap = [row EXCEPT !.tr = racer.translation,
                                               !.src = racer.source_language]]
    /\ nextId' = nextId + 1
    /\ UNCHANGED gw

RcWrite ==
    /\ racer.pc = "save_write"
    /\ cache' = IF ViolatesUnique(racer.snap) THEN cache
                ELSE DbUpdate(racer.snap)
    /\ racer' = RacerIdle
    /\ UNCHANGED <<nextId, gw>>

(***************************************************************************)
(* The Layout Reinserter: PDFTranslator._apply_translated_text.            *)
(* Lengths are whole points; span sizes are tenths of a point, so that     *)
(* round() has something to round.                                         *)
(***************************************************************************)
\* round(x) of Python 3 for x = tenths / 10: half goes to the even neighbour
Round10(tenths) ==
    LET q == tenths \div 10
        r == tenths % 10
    IN  IF r > 5 \/ (r = 5 /\ q % 2 = 1) THEN q + 1 ELSE q

\* min_font_size = 3
min_font_size == 3

\* round(size) - 2
FontOffset == 2

\* font_size > 9.5, in tenths
SmallBlockThreshold10 == 95

\* bbox.width < 250 ; bbox.x1 += 100
BulletWidthLimit == 250
BulletExtraWidth == 100

\* new_page.rect.width - 20
PageMargin == 20

\* initial_bbox_height * 0.05, initial_bbox_width * 0.05
StepPercent == 5

\* the page of the model and the inputs of a call
PageWidth == 400
SpanSizes10 == {44, 115, 120}
BoxWidths == {0, 100, 300}
BoxHeights == {20, 40}

\* the height at which the floating-point addition bbox.y1 += step absorbs
\* the step and the rectangle stops growing
MaxHeight == 44

is_bbox_valid(width, height) == width > 0 /\ height > 0

\* the font size the call starts with (lines 430-434)
InitialFontSize(size10, is_big_block) ==
    LET fs == Round10(size10) - FontOffset
    IN  IF ~is_big_block /\ fs * 10 > SmallBlockThreshold10 THEN fs - 1 ELSE fs

InsIdle ==
    [pc |-> "idle", font_size |-> 0, initial_font_size |-> 0,
     is_big_block |-> FALSE, bullet |-> FALSE,
     width |-> 0, height |-> 0,
     width_increase_step |-> 0, height_increase_step |-> 0,
     rc |-> -1, overflowed |-> FALSE, redacted |-> FALSE, outcome |-> "none"]

\* the call up to the retry loop (lines 425-485)
InsStart(size10, is_big_block, bullet, w, h) ==
    /\ ins.pc \in {"idle", "done"}
    /\ IF ~is_bbox_valid(w, h)
       THEN ins' = [InsIdle EXCEPT !.pc = "done", !.outcome = "skipped",
                                   !.width = w, !.height = h]
       ELSE LET fs  == InitialFontSize(size10, is_big_block)
                w1  == IF bullet /\ w < BulletWidthLimit
                       THEN w + BulletExtraWidth ELSE w
                enter == fs >= min_font_size
            IN  ins' = [pc |-> IF enter THEN "attempt" ELSE "done",
                        font_size |-> fs, initial_font_size |-> fs,
                        is_big_block |-> is_big_block, bullet |-> bullet,
                        width |-> w1, height |-> h,
                        width_increase_step |-> (w1 * StepPercent) \div 100,
                        height_increase_step |-> (h * StepPercent) \div 100,
                        rc |-> -1, overflowed |-> FALSE, redacted |-> TRUE,
                        outcome |-> IF enter THEN "none" ELSE "unable"]

\* one insertion attempt (lines 485-512): insert_textbox of a big block
\* answers with a negative number when the text does not fit; insert_text
\* of a small block answers with the number of lines it drew
InsInsert(fits) ==
    /\ ins.pc = "attempt"
    /\ ins.is_big_block \/ fits
    /\ ins' = IF fits
              THEN [ins EXCEPT !.rc = 0, !.pc = "done", !.outcome = "inserted"]
              ELSE [ins EXCEPT !.rc = -1, !.pc = "grow", !.overflowed = TRUE]

\* the growth step with the width left uncapped: min() forgotten
InsGrow_Uncapped ==
    /\ ins.pc = "grow"
    /\ LET max_width == PageWidth - PageMargin
           grown == IF ins.width < max_width /\ ins.bullet
                    THEN [ins EXCEPT !.width = ins.width + ins.width_increase_step]
                    ELSE [ins EXCEPT !.height =
                            IF ins.height + ins.height_increase_step < MaxHeight
                            THEN ins.height + ins.height_increase_step
                            ELSE MaxHeight]
       IN  ins' = [grown EXCEPT !.pc = "attempt"]

\* after a failed attempt (lines 514-530): the rectangle grows, the font
\* size stays, and the loop condition rc < 0 and font_size >= min_font_size
\* is evaluated again
InsGrow ==
    /\ ins.pc = "grow"
    /\ LET max_width == PageWidth - PageMargin
           grown == IF ins.width < max_width /\ ins.bullet
                    THEN [ins EXCEPT !.width =
                            IF ins.width + ins.width_increase_step < max_width
                            THEN ins.width + ins.width_increase_step
                            ELSE max_width]
                    ELSE [ins EXCEPT !.height =
                            IF ins.height + ins.height_increase_step < MaxHeight
                            THEN ins.height + ins.height_increase_step
                            ELSE MaxHeight]
       IN  ins' = IF grown.rc < 0 /\ grown.font_size >= min_font_size
                  THEN [grown EXCEPT !.pc = "attempt"]
                  ELSE [grown EXCEPT !.pc = "done", !.outcome = "unable"]

(***************************************************************************)
(* A run: Document.translate and PDFTranslator.translate_pdf.              *)
(***************************************************************************)
MaxPages == 4

\* the extensions a Document can have been saved with (settings.py is not
\* part of the sources; Document.translate handles '.pdf' and rejects others)
FileExtensions == {".pdf", ".jpg"}

\* progress_data of Document.update_progress
progress_data(current_page, total_pages, error, error_message) ==
    [current_page |-> current_page, total_pages |-> total_pages,
     error |-> error, error_message |-> error_message]

\* a page counter that is not advanced
CurrentPageOf_Stale(page_number) == page_number

\* self.current_page = page_number + 1
CurrentPageOf(page_number) == page_number + 1

RunIdle ==
    [pc |-> "idle", file_extension |-> ".pdf", pages |-> 0,
     translator |-> FALSE, total_pages |-> 0, current_page |-> 0,
     page_number |-> 0, log |-> <<>>, progress_file |-> <<>>,
     tt_calls |-> 0, service_errors |-> 0,
     pending |-> "none", raised |-> "none"]

\* the record of what the run did, in order
LogProgress(r, d) == [r EXCEPT !.log = Append(@, [ev |-> "progress", data |-> d]),
                               !.progress_file = <<d>>]
LogPage(r, ev) == [r EXCEPT !.log = Append(@, [ev |-> ev, page |-> r.current_page])]

\* async_translate calls document.translate()
RunStart(ext, pages) ==
    /\ run.pc = "idle"
    /\ run' = [RunIdle EXCEPT !.pc = "try", !.file_extension = ext, !.pages = pages]

\* translator = PDFTranslator(self), or the branch of an unsupported type
RunConstruct(ok) ==
    /\ run.pc = "try"
    /\ run' = IF run.file_extension # ".pdf"
              THEN [run EXCEPT !.pc = "except", !.pending = "ValueError"]
              ELSE IF ok
              THEN [run EXCEPT !.pc = "open", !.translator = TRUE,
                               !.total_pages = 1, !.current_page = 0]
              ELSE [run EXCEPT !.pc = "except", !.pending = "construct"]

\* translate_pdf up to the page loop
RunOpen(ok) ==
    /\ run.pc = "open"
    /\ run' = IF ok
              THEN LET r == [run EXCEPT !.total_pages = run.pages, !.pc = "page"]
                   IN  LogProgress(r, progress_data(0, r.total_pages, FALSE, ""))
              ELSE [run EXCEPT !.pc = "except", !.pending = "open"]

\* for page_number in range(self.total_pages)
RunPage ==
    /\ run.pc = "page"
    /\ run' = IF run.page_number < run.total_pages
              THEN LogPage([run EXCEPT !.current_page = CurrentPageOf(run.page_number),
                                       !.tt_calls = 0, !.service_errors = 0,
                                       !.pc = "translate_texts"], "begin")
              ELSE [run EXCEPT !.pc = "save"]

\* extraction, image blocks and self.translator.translate_texts(page_texts)
\* tt_calls counts the calls of translate_texts for the page, service_errors
\* the service calls of those that raised (translate_text has no try block,
\* translate_texts calls it once, and translate_pdf calls translate_texts once)
RunTranslate(ok) ==
    /\ run.pc = "translate_texts"
    /\ run' = IF ok THEN [run EXCEPT !.pc = "apply", !.tt_calls = @ + 1]
              ELSE [run EXCEPT !.pc = "except", !.pending = "translate_texts",
                               !.tt_calls = @ + 1, !.service_errors = @ + 1]

\* self._apply_translated_texts(...)
RunApply(ok) ==
    /\ run.pc = "apply"
    /\ run' = IF ok THEN LogPage([run EXCEPT !.pc = "report"], "applied")
              ELSE [run EXCEPT !.pc = "except", !.pending = "apply"]

\* self.document.update_progress(self.current_page, self.total_pages)
RunReport ==
    /\ run.pc = "report"
    /\ run' = LogProgress([run EXCEPT !.pc = "page", !.page_number = @ + 1],
                          progress_data(run.current_page, run.total_pages, FALSE, ""))

\* translated_pdf.save(...) and self.document.save()
RunSave(ok) ==
    /\ run.pc = "save"
    /\ run' = IF ok THEN [run EXCEPT !.pc = "done"]
              ELSE [run EXCEPT !.pc = "except", !.pending = "save"]

\* except Exception as e: the handler reads translator.current_page; the name
\* translator is unbound when the constructor raised or the type was rejected
RunExcept ==
    /\ run.pc = "except"
    /\ run' = IF run.translator
              THEN LogProgress([run EXCEPT !.pc = "failed", !.raised = run.pending],
                               progress_data(run.current_page, run.total_pages,
                                             TRUE, run.pending))
              ELSE [run EXCEPT !.pc = "failed", !.raised = "UnboundLocalError"]

(***************************************************************************)
(* The upload view: views.upload_document and views.async_translate.       *)
(***************************************************************************)
MaxUploads == 4

\* settings.SUPPORTED_FILE_FORMATS and settings.MAX_FILE_SIZE_MB; the
\* settings module is not part of the sources
SUPPORTED_FILE_FORMATS == {".pdf", ".jpg"}
MAX_FILE_SIZE_MB == 10

\* the uploads of the model: file extension and size in MB
UploadExtensions == {".pdf", ".jpg", ".txt"}
UploadSizes == {1, 11}

UpIdle == [requests |-> <<>>, documents |-> {}, threads |-> {}]

\* the primary key the database gives a new Document row
NewPk(documents) == Cardinality(documents) + 1

\* a second thread started for the same document
ThreadsStarted_Twice(request, document) ==
    {[request |-> request, document |-> document, pc |-> "started"],
     [request |-> request + MaxUploads, document |-> document, pc |-> "started"]}

\* threading.Thread(target=async_translate, args=(new_document,)).start()
ThreadsStarted(request, document) ==
    {[request |-> request, document |-> document, pc |-> "started"]}

\* one POST to upload_document, from validation to the JSON response
upload_document(file_extension, file_size_mb) ==
    /\ Len(up.requests) < MaxUploads
    /\ LET request == Len(up.requests) + 1
       IN  IF file_extension \notin SUPPORTED_FILE_FORMATS
                \/ file_size_mb > MAX_FILE_SIZE_MB
           THEN up' = [up EXCEPT !.requests =
                         Append(@, [success |-> FALSE, document_id |-> 0])]
           ELSE LET pk == NewPk(up.documents)
                IN  up' = [requests |-> Append(up.requests,
                                [success |-> TRUE, document_id |-> pk]),
                           documents |-> up.documents \cup {pk},
                           threads |-> up.threads \cup ThreadsStarted(request, pk)]

\* the thread enters document.translate()
async_translate(t) ==
    /\ t \in up.threads
    /\ t.pc = "started"
    /\ up' = [up EXCEPT !.threads = (@ \ {t}) \cup {[t EXCEPT !.pc = "translating"]}]

\* document.translate() returns or raises: the thread ends
ThreadEnd(t) ==
    /\ t \in up.threads
    /\ t.pc = "translating"
    /\ up' = [up EXCEPT !.threads = (@ \ {t}) \cup {[t EXCEPT !.pc = "ended"]}]

(***************************************************************************)
(* Image blocks: PDFTranslator._process_image_block and its image_cache.   *)
(* An image is its bytes; its width follows from its bytes.                *)
(***************************************************************************)
MaxImageBlocks == 5

\* min_size = 350
min_size == 350

\* the images of the model: [data, width]; data "" is a block without bytes
Images == {[data |-> "", width |-> 0],
           [data |-> "icon", width |-> 300],
           [data |-> "scanA", width |-> 400],
           [data |-> "scanB", width |-> 800]}

\* hashlib.md5(image_data).hexdigest(): equal bytes give equal digests
Md5(image_data) == <<"md5", image_data>>

\* what self.yandex_translator.translate_image(image) can do
TranslateImageOutcomes == {"path", "None", "raise"}

\* the path translate_image returns
TranslatedImagePath == "translated_image_path"

ImgIdle ==
    [image_cache |-> <<>>, blocks |-> 0, raised |-> FALSE,
     translations |-> {},
     \* the digest of the image whose result final_image.save wrote last to
     \* self.translated_image_path (<<>>: no file yet)
     file |-> <<>>,
     last |-> [image_hash |-> <<>>, hit |-> FALSE, called |-> FALSE,
               block_was_translated |-> FALSE, inserted |-> "none",
               content |-> <<>>]]

\* a cache that never answers
ImageCached_Never(image_cache, image_hash) == FALSE

\* if image_hash in self.image_cache
ImageCached(image_cache, image_hash) ==
    \E n \in 1..Len(image_cache) : image_cache[n].image_hash = image_hash

\* self.image_cache[image_hash]
CachedPath(image_cache, image_hash) ==
    (CHOOSE e \in {image_cache[n] : n \in 1..Len(image_cache)} :
        e.image_hash = image_hash).path

\* one call of _process_image_block (lines 306-360)
process_image_block(image, outcome) ==
    /\ ~img.raised
    /\ img.blocks < MaxImageBlocks
    /\ LET image_hash == Md5(image.data)
           before == \E t \in img.translations : t.image_hash = image_hash
           skip == [img EXCEPT !.blocks = @ + 1,
                       !.last = [image_hash |-> <<>>, hit |-> FALSE,
                                 called |-> FALSE, block_was_translated |-> FALSE,
                                 inserted |-> "none", content |-> <<>>]]
       IN  IF image.data = "" \/ image.width < min_size
           THEN img' = skip
           ELSE IF ImageCached(img.image_cache, image_hash)
           THEN img' = [img EXCEPT !.blocks = @ + 1,
                           !.last = [image_hash |-> image_hash, hit |-> TRUE,
                                     block_was_translated |-> before,
                                     called |-> FALSE,
                                     inserted |-> CachedPath(img.image_cache, image_hash),
                                     content |-> img.file]]
           ELSE CASE outcome = "raise" ->
                       img' = [img EXCEPT !.blocks = @ + 1, !.raised = TRUE,
                                  !.last = [image_hash |-> image_hash, hit |-> FALSE,
                                            block_was_translated |-> before,
                                            called |-> TRUE, inserted |-> "none",
                                            content |-> <<>>]]
                  [] outcome = "None" ->
                       img' = [img EXCEPT !.blocks = @ + 1,
                                  !.last = [image_hash |-> image_hash, hit |-> FALSE,
                                            block_was_translated |-> before,
                                            called |-> TRUE, inserted |-> "none",
                                            content |-> <<>>]]
                  [] OTHER ->
                       img' = [img EXCEPT !.blocks = @ + 1,
                                  !.image_cache = Append(@, [image_hash |-> image_hash,
                                                           path |-> TranslatedImagePath]),
                                  !.file = image_hash,
                                  !.translations = @ \cup {[image_hash |-> image_hash,
                                                            block |-> img.blocks + 1]},
                                  !.last = [image_hash |-> image_hash, hit |-> FALSE,
                                            block_was_translated |-> before,
                                            called |-> TRUE,
                                            inserted |-> TranslatedImagePath,
                                            content |-> image_hash]]

\* a new PDFTranslator: self.image_cache = {}
ImgNewRun ==
    /\ img.blocks > 0
    /\ img' = ImgIdle

(***************************************************************************)
(* ImageTranslatorWithOpenAI.translate_image.                              *)
(***************************************************************************)
\* max_retries=3, and the values a caller may pass
DefaultMaxRetries == 3
MaxRetriesBound == 4
MaxRetriesValues == 1..MaxRetriesBound

\* what one pass through the try block can do: succeed, or raise in the
\* service call, on empty text data, or while saving
AttemptOutcomes == {"ok", "service_error", "no_text_data", "save_error"}

OaIdle ==
    [pc |-> "idle", max_retries |-> DefaultMaxRetries, attempt |-> 0,
     log |-> <<>>, result |-> "none", error |-> "none"]

\* a retry test that lets one more failure pass
Exhausted_OffByOne(attempt, max_retries) == attempt > max_retries

\* if attempt >= max_retries
Exhausted(attempt, max_retries) == attempt >= max_retries

\* while attempt < max_retries
LoopGoesOn(attempt, max_retries) == attempt < max_retries

\* the call up to the loop (lines 229-243): the progress write, opening the
\* image and building the prompt are outside the try block
OaCall(max_retries, ok) ==
    /\ oa.pc \in {"idle", "returned", "raised"}
    /\ oa' = IF ok
             THEN [OaIdle EXCEPT !.max_retries = max_retries,
                      !.pc = IF LoopGoesOn(0, max_retries) THEN "loop" ELSE "returned",
                      !.result = IF LoopGoesOn(0, max_retries) THEN "none" ELSE "None"]
             ELSE [OaIdle EXCEPT !.max_retries = max_retries, !.pc = "raised",
                      !.result = "error", !.error = "before_loop"]

\* one pass through the loop body (lines 244-282)
OaAttempt(outcome) ==
    /\ oa.pc = "loop"
    /\ IF outcome = "ok"
       THEN oa' = [oa EXCEPT !.log = Append(@, outcome), !.pc = "returned",
                             !.result = "path"]
       ELSE LET attempt == oa.attempt + 1
            IN  oa' = IF Exhausted(attempt, oa.max_retries)
                      THEN [oa EXCEPT !.log = Append(@, outcome), !.attempt = attempt,
                                      !.pc = "raised", !.result = "error",
                                      !.error = outcome]
                      ELSE IF LoopGoesOn(attempt, oa.max_retries)
                      THEN [oa EXCEPT !.log = Append(@, outcome), !.attempt = attempt]
                      ELSE [oa EXCEPT !.log = Append(@, outcome), !.attempt = attempt,
                                      !.pc = "returned", !.result = "None"]

(***************************************************************************)
(* Font resolution: FontManager.find_font_path.  The fonts directory is    *)
(* what os.walk yields: a sequence of directories, the fonts directory     *)
(* itself first, each with the sequence of its file names.                 *)
(***************************************************************************)
\* most directories of a walk, most files of one directory
MaxDirs == 2

MaxFiles == 2

\* sub in s
Contains(sub, s) ==
    \E i \in 0..(Len(s) - Len(sub)) : SubSeq(s, i + 1, i + Len(sub)) = sub

StartsWith(s, pre) == Len(s) >= Len(pre) /\ SubSeq(s, 1, Len(pre)) = pre

\* str.lower()
Lower(s) == [i \in 1..Len(s) |-> ToLower(s[i])]

\* str.replace(sub, ''), sub not empty
RECURSIVE Remove(_, _)
Remove(s, sub) ==
    IF s = <<>> THEN <<>>
    ELSE IF StartsWith(s, sub) THEN Remove(Drop(s, Len(sub)), sub)
    ELSE <<s[1]>> \o Remove(Tail(s), sub)

\* str.split('_')
RECURSIVE SplitUnderscore(_)
SplitUnderscore(s) ==
    IF \A i \in 1..Len(s) : s[i] # "_" THEN <<s>>
    ELSE LET k == CHOOSE i \in 1..Len(s) :
                      s[i] = "_" /\ \A j \in 1..(i - 1) : s[j] # "_"
         IN  <<SubSeq(s, 1, k - 1)>> \o SplitUnderscore(Drop(s, k))

\* re.sub(r'(MT|PSMT|[-\s]+)', '', fontname)
RECURSIVE RemoveFontSuffixes(_)
RemoveFontSuffixes(s) ==
    IF s = <<>> THEN <<>>
    ELSE IF StartsWith(s, <<"M", "T">>) THEN RemoveFontSuffixes(Drop(s, 2))
    ELSE IF StartsWith(s, <<"P", "S", "M", "T">>) THEN RemoveFontSuffixes(Drop(s, 4))
    ELSE IF s[1] = "-" \/ IsSpace(s[1]) THEN RemoveFontSuffixes(Tail(s))
    ELSE <<s[1]>> \o RemoveFontSuffixes(Tail(s))

normalized_fontname(fontname) == Lower(RemoveFontSuffixes(fontname))

\* re.sub(r'[-\s]+', '', file)
RECURSIVE RemoveHyphensAndSpaces(_)
RemoveHyphensAndSpaces(s) ==
    IF s = <<>> THEN <<>>
    ELSE IF s[1] = "-" \/ IsSpace(s[1]) THEN RemoveHyphensAndSpaces(Tail(s))
    ELSE <<s[1]>> \o RemoveHyphensAndSpaces(Tail(s))

normalized_filename(file) ==
    Remove(Remove(Remove(Lower(RemoveHyphensAndSpaces(file)),
                         <<".", "t", "t", "f">>), <<".", "t", "t", "c">>), <<".", "o", "t", "f">>)

StrBold == <<"b", "o", "l", "d">>

StrItalic == <<"i", "t", "a", "l", "i", "c">>

style_penalty == 2

match_threshold == 1

\* the score of one file for a normalized font name
match_score(nfont, file) ==
    LET nfile == normalized_filename(file)
        parts == SplitUnderscore(nfont)
        hits  == Cardinality({i \in 1..Len(parts) : Contains(parts[i], nfile)})
        pen(style) == IF Contains(style, nfont) # Contains(style, nfile)
                      THEN style_penalty ELSE 0
    IN  hits - pen(StrBold) - pen(StrItalic)

\* the font names of the model: "Arial", "Arial-BoldMT", "Times_Italic",
\* "PSMT" (normalizes to the empty name) and "Zapf" (matches no file)
FontArial == <<"A", "r", "i", "a", "l">>

FontArialBoldMT == <<"A", "r", "i", "a", "l", "-", "B", "o", "l", "d", "M", "T">>

FontTimesItalic == <<"T", "i", "m", "e", "s", "_", "I", "t", "a", "l", "i", "c">>

FontPSMT == <<"P", "S", "M", "T">>

FontZapf == <<"Z", "a", "p", "f">>

FontNames == {FontArial, FontArialBoldMT, FontTimesItalic, FontPSMT, FontZapf}

\* the files of the model: "Arial.ttf", "Arial Bold.ttf", "Times-Italic.otf"
\* and "notes.txt", which is no font file
FileArial == <<"A", "r", "i", "a", "l", ".", "t", "t", "f">>

FileArialBold == <<"A", "r", "i", "a", "l", " ", "B", "o", "l", "d", ".", "t", "t", "f">>

FileTimesItalic == <<"T", "i", "m", "e", "s", "-", "I", "t", "a", "l", "i", "c", ".", "o", "t", "f">>

FileNotes == <<"n", "o", "t", "e", "s", ".", "t", "x", "t">>

\* "Georgia Italic.ttf": for the name "Times_Italic" it matches one part of
\* two
FileGeorgiaItalic == <<"G", "e", "o", "r", "g", "i", "a", " ", "I", "t", "a", "l", "i", "c", ".", "t", "t", "f">>

FontFiles == {FileArial, FileArialBold, FileTimesItalic, FileNotes,
              FileGeorgiaItalic}

\* a list of Cyrillic languages that the filter leaves empty
cyrillic_languages_None == {}

\* the languages of LANGUAGES whose encoding is TEXT_ENCODING_CYRILLIC
cyrillic_languages == {"RU"}

\* supports_cyrillic: TRUE when a cmap table has a code point of the
\* Cyrillic range; FALSE otherwise, also when TTFont raises on the file
\* (the except clause logs and falls through to return False)
CyrillicFiles == {FileArial, FileArialBold}

supports_cyrillic(path) == path.file \in CyrillicFiles

\* Python's None where a path is expected
NoPath == [root |-> 0, file |-> <<>>]

\* os.path.join(self.fonts_dir, 'Arial.ttf'): the fonts directory is the
\* first directory of the walk
DefaultFontPath == [root |-> 1, file |-> FileArial]

\* the inner loop over the files of one directory
RECURSIVE ScanFiles(_, _, _, _)
ScanFiles(files, root, nfont, best) ==
    IF files = <<>> THEN best
    ELSE LET score == match_score(nfont, Head(files))
         IN  ScanFiles(Tail(files), root, nfont,
                       IF score > best.score
                       THEN [path |-> [root |-> root, file |-> Head(files)],
                             score |-> score]
                       ELSE best)

\* the test before the final return
FallsBack_Never(best) == FALSE

FallsBack(best) == best.path = NoPath \/ best.score < match_threshold

\* the outer loop from directory k on, and the code after it
RECURSIVE WalkFrom(_, _, _, _, _)
WalkFrom(dirs, k, nfont, language, best) ==
    IF k > Len(dirs)
    THEN IF FallsBack(best) THEN DefaultFontPath ELSE best.path
    ELSE LET b == ScanFiles(dirs[k], k, nfont, best)
         IN  IF b.path # NoPath /\ b.score >= match_threshold
             THEN IF language \in cyrillic_languages /\ ~supports_cyrillic(b.path)
                  THEN DefaultFontPath
                  ELSE IF FallsBack(b) THEN DefaultFontPath ELSE b.path
             ELSE WalkFrom(dirs, k + 1, nfont, language, b)

find_font_path(fontname, dirs, language) ==
    WalkFrom(dirs, 1, normalized_fontname(fontname), language,
             [path |-> NoPath, score |-> 0])

\* the directory contents of the model
FileLists == UNION {[1..n -> FontFiles] : n \in 0..MaxFiles}

FontDirs == UNION {[1..n -> FileLists] : n \in 0..MaxDirs}

(***************************************************************************)
(* Block merging: PDFTranslator.is_continuation and                        *)
(* merge_text_blocks_with_continuation.  Lengths and font sizes are in     *)
(* hundredths of a point.                                                  *)
(***************************************************************************)
\* longest list of blocks of a page
MaxBlocks == 3

\* font_size_tolerance = 0.5 and merge_text_blocks_with_continuation's
\* y_tolerance = 0.01, which it passes to is_continuation
font_size_tolerance == 50

y_tolerance == 1

Abs(x) == IF x < 0 THEN 0 - x ELSE x

RequiredKeys == {"type", "lines", "bbox"}

Span(text, font, size, top, bottom) ==
    [text |-> text, font |-> font, size |-> size, bbox |-> <<0, top, 5000, bottom>>]

\* a text block of the page dictionary
TextBlock(lines, top, bottom) ==
    [keys |-> RequiredKeys, type |-> 0, lines |-> lines,
     bbox |-> <<0, top, 5000, bottom>>]

\* a first block, "a" in font F1 at 10 pt, from y = 10 to y = 20
BlkHead == TextBlock(<<[spans |-> <<Span(<<"a">>, "F1", 1000, 1000, 2000)>>]>>, 1000, 2000)

\* blocks from y = 20 to y = 30: the same font at 10.4 pt; the same font
\* 0.01 pt lower; another font; the same font at 10.5 pt; white space
\* only; white space in F1 beside text in F2; two lines, the first in F1
BlkNext == TextBlock(<<[spans |-> <<Span(<<"b">>, "F1", 1040, 2000, 3000)>>]>>, 2000, 3000)

BlkGap == TextBlock(<<[spans |-> <<Span(<<"c">>, "F1", 1000, 2001, 3000)>>]>>, 2001, 3000)

BlkOtherFont == TextBlock(<<[spans |-> <<Span(<<"d">>, "F2", 1000, 2000, 3000)>>]>>, 2000, 3000)

BlkBigger == TextBlock(<<[spans |-> <<Span(<<"e">>, "F1", 1050, 2000, 3000)>>]>>, 2000, 3000)

BlkBlank == TextBlock(<<[spans |-> <<Span(<<" ">>, "F1", 1000, 2000, 3000)>>]>>, 2000, 3000)

BlkMixed ==
    TextBlock(<<[spans |-> <<Span(<<" ">>, "F1", 1000, 2000, 3000),
                             Span(<<"f">>, "F2", 1000, 2000, 3000)>>]>>, 2000, 3000)

BlkTwoLines ==
    TextBlock(<<[spans |-> <<Span(<<"g">>, "F1", 1000, 2000, 2500)>>],
                [spans |-> <<Span(<<"h">>, "F2", 1000, 2500, 3000)>>]>>, 2000, 3000)

\* an image block: it has no 'lines'
BlkImage == [keys |-> {"type", "bbox"}, type |-> 1, lines |-> <<>>,
             bbox |-> <<0, 2000, 5000, 3000>>]

PageBlocks == {BlkHead, BlkNext, BlkGap, BlkOtherFont, BlkBigger, BlkBlank,
               BlkMixed, BlkTwoLines, BlkImage}

BlockLists == UNION {[1..n -> PageBlocks] : n \in 1..MaxBlocks}

\* get_non_empty_spans, as the set of the spans it lists
get_non_empty_spans(block) ==
    {block.lines[l].spans[k] :
        <<l, k>> \in {lk \in (1..Len(block.lines)) \X (1..2) :
                         /\ lk[2] <= Len(block.lines[lk[1]].spans)
                         /\ Strip(block.lines[lk[1]].spans[lk[2]].text) # <<>>}}

\* is_continuation with the vertical test left out
is_continuation_AnyHeight(block1, block2, y_tol) ==
    \E span1 \in get_non_empty_spans(block1), span2 \in get_non_empty_spans(block2) :
        /\ Abs(span1.size - span2.size) < font_size_tolerance
        /\ span1.font = span2.font

\* the nested loops return True at the first pair that passes the tests
is_continuation(block1, block2, y_tol) ==
    /\ get_non_empty_spans(block1) # {}
    /\ get_non_empty_spans(block2) # {}
    /\ \E span1 \in get_non_empty_spans(block1), span2 \in get_non_empty_spans(block2) :
          /\ Abs(span1.size - span2.size) < font_size_tolerance
          /\ span1.font = span2.font
          /\ span2.bbox[2] < span1.bbox[4] + y_tol

\* Python's None for current_block
NoBlock == [keys |-> {}, type |-> 0 - 1, lines |-> <<>>, bbox |-> <<0, 0, 0, 0>>]

\* one iteration of the loop over the blocks
MergeStep(st, block) ==
    IF ~(RequiredKeys \subseteq block.keys) THEN st
    ELSE LET next ==
                 IF st.current_block = NoBlock
                 THEN [st EXCEPT !.current_block = block]
                 ELSE IF is_continuation(st.current_block, block, y_tolerance)
                 THEN [st EXCEPT !.current_block.lines = @ \o block.lines,
                                 !.current_block.bbox[4] = block.bbox[4]]
                 ELSE [merged_blocks |-> Append(st.merged_blocks, st.current_block),
                       current_block |-> block]
         IN  [next EXCEPT !.current_block.type = block.type]

RECURSIVE MergeLoop(_, _)
MergeLoop(st, blocks) ==
    IF blocks = <<>> THEN st ELSE MergeLoop(MergeStep(st, Head(blocks)), Tail(blocks))

merge_text_blocks_with_continuation(blocks) ==
    LET st == MergeLoop([merged_blocks |-> <<>>, current_block |-> NoBlock], blocks)
    IN  IF st.current_block # NoBlock
        THEN Append(st.merged_blocks, st.current_block)
        ELSE st.merged_blocks

(***************************************************************************)
(* Colours: PDFTranslator.normalize_color.  A colour is a packed integer,  *)
(* a tuple or something else (None); the numbers of a tuple are held in    *)
(* units of 1/65025, so that 1.0 is 65025 and two divisions by 255 of the  *)
(* values of the model are exact.                                          *)
(***************************************************************************)
ColorUnit == 65025

PackedColor(n) == [kind |-> "int", value |-> n]

ColorTuple(t) == [kind |-> "tuple", value |-> t]

NoColor == [kind |-> "None", value |-> <<>>]

\* 0x000000, 0xFF0000, 0x00FF00, 0x0000FF, 0xFFFFFF, 0x336699
PackedColors == {0, 16711680, 65280, 255, 16777215, 3368601}

\* the numbers 0, 1.0 and 255 as components of a tuple
Components == {0, ColorUnit, 255 * ColorUnit}

\* the tuples of the model: the triples, and a tuple of four numbers
ColorTuples == [1..3 -> Components] \cup {<<0, 0, 0, ColorUnit>>}

normalize_color(color) ==
    IF color.kind = "int"
    THEN LET r == (color.value \div 65536) % 256
             g == (color.value \div 256) % 256
             b == color.value % 256
         IN  ColorTuple(<<(r * ColorUnit) \div 255, (g * ColorUnit) \div 255,
                          (b * ColorUnit) \div 255>>)
    ELSE IF color.kind = "tuple" /\ Len(color.value) = 3
    THEN ColorTuple([n \in 1..3 |-> color.value[n] \div 255])
    ELSE ColorTuple(<<0, 0, 0>>)

(***************************************************************************)
(* Rotation: PDFTranslator.calculate_rotation_angle.  Angles are in        *)
(* hundredths of a degree.                                                 *)
(***************************************************************************)
\* the components of the direction vectors of the model
DirComponents == {0 - 2, 0 - 1, 0, 1, 2}

DirVectors == DirComponents \X DirComponents

\* math.degrees(math.atan2(dy, dx)) of v = (dx, dy), in (-180, 180]
Atan2Degrees ==
    [v \in DirVectors |->
        CASE v = <<(0 - 2), (0 - 2)>> -> (0 - 13500)
          [] v = <<(0 - 2), (0 - 1)>> -> (0 - 15343)
          [] v = <<(0 - 2), 0>> -> 18000
          [] v = <<(0 - 2), 1>> -> 15343
          [] v = <<(0 - 2), 2>> -> 13500
          [] v = <<(0 - 1), (0 - 2)>> -> (0 - 11657)
          [] v = <<(0 - 1), (0 - 1)>> -> (0 - 13500)
          [] v = <<(0 - 1), 0>> -> 18000
          [] v = <<(0 - 1), 1>> -> 13500
          [] v = <<(0 - 1), 2>> -> 11657
          [] v = <<0, (0 - 2)>> -> (0 - 9000)
          [] v = <<0, (0 - 1)>> -> (0 - 9000)
          [] v = <<0, 0>> -> 0
          [] v = <<0, 1>> -> 9000
          [] v = <<0, 2>> -> 9000
          [] v = <<1, (0 - 2)>> -> (0 - 6343)
          [] v = <<1, (0 - 1)>> -> (0 - 4500)
          [] v = <<1, 0>> -> 0
          [] v = <<1, 1>> -> 4500
          [] v = <<1, 2>> -> 6343
          [] v = <<2, (0 - 2)>> -> (0 - 4500)
          [] v = <<2, (0 - 1)>> -> (0 - 2657)
          [] v = <<2, 0>> -> 0
          [] v = <<2, 1>> -> 2657
          [] v = <<2, 2>> -> 4500]

\* if rotate_angle < 0: rotate_angle += 360, left out
NormalizeAngle_Skipped(a) == a

NormalizeAngle(a) == IF a < 0 THEN a + 36000 ELSE a

\* Python's None where an angle is expected
NoAngle == 0 - 1

\* the if / elif chain; a function that ends without return gives None
SnapAngle(a) ==
    IF a < 4500 \/ a >= 31500 THEN 0
    ELSE IF 4500 <= a /\ a < 13500 THEN 90
    ELSE IF 13500 <= a /\ a < 22500 THEN 180
    ELSE IF 22500 <= a /\ a < 31500 THEN 270
    ELSE NoAngle

calculate_rotation_angle(dir_x, dir_y) ==
    SnapAngle(NormalizeAngle(0 - Atan2Degrees[<<dir_x, dir_y>>]))

(***************************************************************************)
(* The memo of supports_cyrillic: FontManager.cyrillic_support_cache is a  *)
(* class attribute, one dictionary for all FontManager instances of the    *)
(* process.  Two threads (one per uploaded document) call                  *)
(* supports_cyrillic; a dictionary read or write is one step, the read of  *)
(* the font file another.                                                  *)
(***************************************************************************)
Callers == {1, 2}

\* the font paths the callers ask about: one with Cyrillic letters, one
\* without
MemoPaths == {FileArial, FileTimesItalic}

\* the memo: a value per path, "absent" for a key the dictionary lacks
FmIdle ==
    [memo     |-> [path \in MemoPaths |-> "absent"],
     caller   |-> [t \in Callers |->
                     [pc |-> "idle", path |-> FileArial, value |-> FALSE,
                      after_return |-> FALSE]],
     returned |-> [path \in MemoPaths |-> "none"],
     last     |-> [path \in MemoPaths |-> "none"]]

BoolStr(b) == IF b THEN "True" ELSE "False"

\* caller t returns value for its path: the first and the latest value
\* returned for the path are recorded
FmReturn(f, t, value) ==
    LET path == f.caller[t].path
    IN  [f EXCEPT !.caller[t].pc = "idle",
                  !.returned[path] = IF @ = "none" THEN value ELSE @,
                  !.last[path] = value]

\* lines 103-104: if font_path in self.cyrillic_support_cache: return it
FmCall(t, path) ==
    /\ fm.caller[t].pc = "idle"
    /\ LET f == [fm EXCEPT !.caller[t].path = path,
                           !.caller[t].after_return = fm.returned[path] # "none"]
       IN  fm' = IF fm.memo[path] # "absent"
                 THEN FmReturn(f, t, fm.memo[path])
                 ELSE [f EXCEPT !.caller[t].pc = "reading"]

\* lines 105-113: TTFont(font_path) and the scan of the cmap tables; a read
\* that raises is caught and counts as no Cyrillic support
FmRead(t, raises) ==
    /\ fm.caller[t].pc = "reading"
    /\ fm' = [fm EXCEPT !.caller[t].pc = "store",
                        !.caller[t].value =
                            ~raises /\ fm.caller[t].path \in CyrillicFiles]

\* lines 109-110 and 114-115: the entry is written and the value returned
FmStore(t) ==
    /\ fm.caller[t].pc = "store"
    /\ fm' = FmReturn([fm EXCEPT !.memo[fm.caller[t].path] =
                                     BoolStr(fm.caller[t].value)],
                      t, BoolStr(fm.caller[t].value))

(***************************************************************************)
(* The units of a page: the collection loop of translate_pdf and the       *)
(* consumption loop of _apply_translated_texts.  A page is a list of       *)
(* blocks; the text blocks are merged, redacted, and walked twice: once to *)
(* collect page_texts, once to place translated_texts.                     *)
(***************************************************************************)
MaxPageBlocks == 2

\* num_chars_threshold = 50
num_chars_threshold == 50

\* the characters U+2022 (bullet) and U+0436 (a Cyrillic letter): neither
\* is matched by [A-Za-z0-9]
Bullet == "U+2022"
Zhe == "U+0436"

Rep(c, n) == [i \in 1..n |-> c]

\* re.search(r'[A-Za-z0-9]', s)
HasAsciiAlnum(s) == \E i \in 1..Len(s) : IsAlpha(s[i]) \/ IsDigit(s[i])

\* for line in block['lines']: for span in line['spans']
RECURSIVE SpansOf(_)
SpansOf(lines) ==
    IF lines = <<>> THEN <<>> ELSE Head(lines).spans \o SpansOf(Tail(lines))

\* block_text += original_text + ' ' over the spans
RECURSIVE BlockText(_)
BlockText(spans) ==
    IF spans = <<>> THEN <<>>
    ELSE Strip(Head(spans).text) \o <<" ">> \o BlockText(Tail(spans))

\* ''.join(span["text"] ...)
RECURSIVE JoinTexts(_)
JoinTexts(spans) ==
    IF spans = <<>> THEN <<>> ELSE Head(spans).text \o JoinTexts(Tail(spans))

is_starts_with_bullet(block) ==
    \E k \in 1..Len(SpansOf(block.lines)) :
        StartsWith(Strip(SpansOf(block.lines)[k].text), <<Bullet>>)

is_big_text_block(block) ==
    \/ is_starts_with_bullet(block)
    \/ Len(JoinTexts(SpansOf(block.lines))) > num_chars_threshold

\* the blocks of the model pages.  A span of given text, font, size and
\* rectangle
PgSpan(text, font, size, bbox) ==
    [text |-> text, font |-> font, size |-> size, bbox |-> bbox]

PgBlock(spans, bbox) ==
    [keys |-> RequiredKeys, type |-> 0, lines |-> <<[spans |-> spans]>>, bbox |-> bbox]

\* a small block with the spans "Hi " and "42"
PbSmall ==
    PgBlock(<<PgSpan(<<"H", "i", " ">>, "F1", 1200, <<0, 1000, 2000, 2000>>),
              PgSpan(<<"4", "2">>, "F1", 1200, <<2000, 1000, 5000, 2000>>)>>,
            <<0, 1000, 5000, 2000>>)

\* a small block whose spans are a dash and a word
PbDash ==
    PgBlock(<<PgSpan(<<"-">>, "F2", 1200, <<0, 3000, 1000, 4000>>),
              PgSpan(<<"o", "k">>, "F2", 1200, <<1000, 3000, 5000, 4000>>)>>,
            <<0, 3000, 5000, 4000>>)

\* a small block of one Cyrillic letter
PbCyr ==
    PgBlock(<<PgSpan(<<Zhe>>, "F3", 1200, <<0, 5000, 5000, 6000>>)>>,
            <<0, 5000, 5000, 6000>>)

\* a block that starts with a bullet
PbBullet ==
    PgBlock(<<PgSpan(<<Bullet, " ", "a">>, "F4", 1200, <<0, 7000, 5000, 8000>>)>>,
            <<0, 7000, 5000, 8000>>)

\* blocks of 51 characters: Latin letters, Cyrillic letters
PbLong ==
    PgBlock(<<PgSpan(Rep("x", 51), "F5", 1200, <<0, 9000, 5000, 10000>>)>>,
            <<0, 9000, 5000, 10000>>)

PbLongCyr ==
    PgBlock(<<PgSpan(Rep(Zhe, 51), "F6", 1200, <<0, 11000, 5000, 12000>>)>>,
            <<0, 11000, 5000, 12000>>)

\* a small block whose span has an empty rectangle
PbBadBox ==
    PgBlock(<<PgSpan(<<"n", "o">>, "F7", 1200, <<0, 13000, 0, 14000>>)>>,
            <<0, 13000, 5000, 14000>>)

\* a small block in 4.4 pt
PbTiny ==
    PgBlock(<<PgSpan(<<"t", "m">>, "F8", 440, <<0, 15000, 5000, 15500>>)>>,
            <<0, 15000, 5000, 15500>>)

PgBlocks == {PbSmall, PbDash, PbCyr, PbBullet, PbLong, PbLongCyr, PbBadBox,
             PbTiny, BlkImage}

Pages == UNION {[1..n -> PgBlocks] : n \in 1..MaxPageBlocks}

\* block['type'] == 0
TypeZero(block) == block.type = 0

\* the loop over the spans of one block in translate_pdf (lines 258-263)
RECURSIVE CollectSpans(_, _, _)
CollectSpans(page_texts, spans, big_text_block) ==
    IF spans = <<>> THEN page_texts
    ELSE LET original_text == Strip(Head(spans).text)
         IN  CollectSpans(IF ~big_text_block /\ HasAsciiAlnum(original_text)
                          THEN Append(page_texts, original_text)
                          ELSE page_texts,
                          Tail(spans), big_text_block)

\* one iteration of the loop over merged_blocks in translate_pdf
CollectBlock(page_texts, block) ==
    IF block.type # 0 THEN page_texts
    ELSE LET big_text_block == is_big_text_block(block)
             spans == SpansOf(block.lines)
             after == CollectSpans(page_texts, spans, big_text_block)
             block_text == BlockText(spans)
         IN  IF big_text_block /\ HasAsciiAlnum(block_text)
             THEN Append(after, Strip(block_text))
             ELSE after

RECURSIVE CollectBlocks(_, _)
CollectBlocks(page_texts, blocks) ==
    IF blocks = <<>> THEN page_texts
    ELSE CollectBlocks(CollectBlock(page_texts, Head(blocks)), Tail(blocks))

\* the language of the page's translator
PgLang == "RU"

\* a translation the gateway returns for a text
PgTranslation(text) == [i \in 1..Len(text) |-> ToUpper(text[i])]

\* str.split(sep) for a separator of one character
RECURSIVE SplitOn(_, _)
SplitOn(s, sep) ==
    IF \A i \in 1..Len(s) : s[i] # sep THEN <<s>>
    ELSE LET i == CHOOSE j \in 1..Len(s) :
                     s[j] = sep /\ \A l \in 1..(j - 1) : s[l] # sep
         IN  <<SubSeq(s, 1, i - 1)>> \o SplitOn(Drop(s, i), sep)

\* '\n'.join of the bullet points that have text
RECURSIVE JoinPoints(_)
JoinPoints(points) ==
    IF points = <<>> THEN <<>>
    ELSE LET point == Strip(Head(points))
             rest == JoinPoints(Tail(points))
         IN  IF point = <<>> THEN rest
             ELSE <<Bullet, " ">> \o apply_format(PgLang, point, point)
                    \o (IF rest = <<>> THEN <<>> ELSE <<"\n">> \o rest)

split_bullet_points(block_text) == JoinPoints(SplitOn(block_text, Bullet))

\* translated_text.count(Bullet)
BulletCount(text) == Cardinality({i \in 1..Len(text) : text[i] = Bullet})

\* how a call of _apply_translated_text for the unit ends (lines 425-434,
\* 485, 533): the bbox is invalid, the font size starts below the floor,
\* or the retry loop inserts the text
UnitOutcome(first_span, bbox, is_big_block) ==
    IF ~is_bbox_valid(bbox[3] - bbox[1], bbox[4] - bbox[2]) THEN "invalid_bbox"
    ELSE IF InitialFontSize(first_span.size \div 10, is_big_block) < min_font_size
         THEN "unable"
         ELSE "inserted"

\* translated_texts[text_index] if text_index < len(translated_texts) else
\* the original text (text_index counts from 0)
TextAt(translated_texts, text_index, original) ==
    IF text_index < Len(translated_texts)
    THEN translated_texts[text_index + 1] ELSE original

\* a call of _apply_translated_text, as the unit it places
PlacedUnit(own_text, translated_text, text_index, used, first_span, bbox, is_big_block, covers) ==
    [own_text |-> own_text, translated_text |-> translated_text,
     text_index |-> text_index, from_translation |-> used,
     bbox |-> bbox, is_big_block |-> is_big_block, covers |-> covers,
     outcome |-> UnitOutcome(first_span, bbox, is_big_block)]

\* a big block is consumed whatever its text
ConsumesBig_AnyText(big_text_block, first_span, block_text) ==
    big_text_block /\ first_span

\* if big_text_block and first_span and re.search(r'[A-Za-z0-9]', block_text)
ConsumesBig(big_text_block, first_span, block_text) ==
    big_text_block /\ first_span /\ HasAsciiAlnum(block_text)

\* the loop over the spans of one block in _apply_translated_texts
\* (lines 380-396); st is [text_index, placed], b and s number the block
\* and the span
RECURSIVE ApplySpans(_, _, _, _, _, _)
ApplySpans(st, spans, b, s, big_text_block, translated_texts) ==
    IF s > Len(spans) THEN st
    ELSE LET span == spans[s]
             original_text == Strip(span.text)
             next ==
                 IF ~big_text_block /\ HasAsciiAlnum(original_text)
                 THEN [text_index |-> st.text_index + 1,
                       placed |-> Append(st.placed,
                           PlacedUnit(original_text,
                                      TextAt(translated_texts, st.text_index, original_text),
                                      st.text_index,
                                      st.text_index < Len(translated_texts),
                                      span, span.bbox, FALSE, {<<b, s>>}))]
                 ELSE st
         IN  ApplySpans(next, spans, b, s + 1, big_text_block, translated_texts)

\* one iteration of the loop over the blocks in _apply_translated_texts
ApplyBlock(st, block, b, translated_texts) ==
    IF block.type # 0 THEN st
    ELSE LET big_text_block == is_big_text_block(block)
             spans == SpansOf(block.lines)
             after == ApplySpans(st, spans, b, 1, big_text_block, translated_texts)
             block_text == BlockText(spans)
         IN  IF ConsumesBig(big_text_block, spans # <<>>, block_text)
             THEN LET own == Strip(block_text)
                      text == TextAt(translated_texts, after.text_index, own)
                      translated_text ==
                          IF BulletCount(text) > 1
                          THEN split_bullet_points(text) ELSE text
                  IN  [text_index |-> after.text_index + 1,
                       placed |-> Append(after.placed,
                           PlacedUnit(own, translated_text, after.text_index,
                                      after.text_index < Len(translated_texts),
                                      spans[1], block.bbox, TRUE,
                                      {<<b, s>> : s \in 1..Len(spans)}))]
             ELSE after

PgIdle ==
    [pc |-> "idle", blocks |-> <<>>, merged_blocks |-> <<>>, redacted |-> {},
     page_texts |-> <<>>, translated_texts |-> <<>>,
     b |-> 0, text_index |-> 0, placed |-> <<>>]

\* a page up to the call of translate_texts (lines 229-272): the text
\* blocks are merged and redacted and the texts are collected
PgCollect(blocks) ==
    /\ pg.pc = "idle"
    /\ LET text_blocks == SelectSeq(blocks, TypeZero)
           merged_blocks == merge_text_blocks_with_continuation(text_blocks)
       IN  pg' = [PgIdle EXCEPT
                    !.pc = "collected",
                    !.blocks = blocks,
                    !.merged_blocks = merged_blocks,
                    !.redacted = {text_blocks[i].bbox : i \in 1..Len(text_blocks)},
                    !.page_texts = CollectBlocks(<<>>, merged_blocks)]

\* translated_texts = self.translator.translate_texts(page_texts): a list
\* with the translation or the text itself at each position
PgTranslate(kept) ==
    /\ pg.pc = "collected"
    /\ kept \subseteq 1..Len(pg.page_texts)
    /\ pg' = [pg EXCEPT
                !.pc = "translated",
                !.b = 1,
                !.translated_texts =
                    [i \in 1..Len(pg.page_texts) |->
                        IF i \in kept THEN pg.page_texts[i]
                        ELSE PgTranslation(pg.page_texts[i])]]

\* translate_texts raises: the page is left
PgRaise ==
    /\ pg.pc = "collected"
    /\ pg' = [pg EXCEPT !.pc = "raised"]

\* _apply_translated_texts, one block of merged_text_dict at a step
PgApplyBlock ==
    /\ pg.pc = "translated"
    /\ IF pg.b > Len(pg.merged_blocks)
       THEN pg' = [pg EXCEPT !.pc = "done"]
       ELSE LET st == ApplyBlock([text_index |-> pg.text_index, placed |-> pg.placed],
                                 pg.merged_blocks[pg.b], pg.b, pg.translated_texts)
            IN  pg' = [pg EXCEPT !.b = @ + 1,
                                 !.text_index = st.text_index,
                                 !.placed = st.placed]

\* the next page of the loop of translate_pdf
PgNextPage ==
    /\ pg.pc \in {"done", "raised"}
    /\ pg' = PgIdle

(***************************************************************************)
(* Pure functions of the pipeline.                                         *)
(***************************************************************************)
FnIdle == [name |-> "none", input |-> <<>>, result |-> <<>>]

\* a call of find_font_path on a FontManager for the language
FnFindFontPath ==
    /\ fn.name = FnIdle.name
    /\ \E fontname \in FontNames, dirs \in FontDirs, language \in LANGUAGES :
          fn' = [name   |-> "find_font_path",
                 input  |-> [fontname |-> fontname, dirs |-> dirs,
                             language |-> language],
                 result |-> find_font_path(fontname, dirs, language)]

\* a call of merge_text_blocks_with_continuation on the blocks of a page
FnMerge ==
    /\ fn.name = FnIdle.name
    /\ \E blocks \in BlockLists :
          fn' = [name   |-> "merge_text_blocks_with_continuation",
                 input  |-> blocks,
                 result |-> merge_text_blocks_with_continuation(blocks)]

\* a call of normalize_color on a packed integer
FnNormalizeColor ==
    /\ fn.name = FnIdle.name
    /\ \E color \in {PackedColor(n) : n \in PackedColors} :
          fn' = [name   |-> "normalize_color",
                 input  |-> color,
                 result |-> normalize_color(color)]

\* a call of normalize_color on a tuple or on None
FnNormalizeTuple ==
    /\ fn.name = FnIdle.name
    /\ \E color \in {ColorTuple(t) : t \in ColorTuples} \cup {NoColor} :
          fn' = [name   |-> "normalize_color",
                 input  |-> color,
                 result |-> normalize_color(color)]

\* a call of calculate_rotation_angle
FnRotation ==
    /\ fn.name = FnIdle.name
    /\ \E v \in DirVectors :
          fn' = [name   |-> "calculate_rotation_angle",
                 input  |-> v,
                 result |-> calculate_rotation_angle(v[1], v[2])]

(***************************************************************************)
(* The specifications.                                                     *)
(***************************************************************************)
vars == <<cache, nextId, gw, racer, ins, run, up, img, oa, fn, fm, pg>>

InitTTVars ==
    /\ cache \in SeedTables
    /\ nextId = FirstFreeId
    /\ gw \in {GwIdle(lang, NoLang) : lang \in TargetLangs}
    /\ racer = RacerIdle

IdleTT ==
    /\ cache = {}
    /\ nextId = FirstFreeId
    /\ gw = GwIdle("RU", NoLang)
    /\ racer = RacerIdle

IdleIns == ins = InsIdle

IdleRun == run = RunIdle

IdleUp == up = UpIdle

IdleImg == img = ImgIdle

IdleOa == oa = OaIdle

IdleFn == fn = FnIdle

IdleFm == fm = FmIdle

IdlePg == pg = PgIdle

InitTT == InitTTVars /\ IdleIns /\ IdleRun /\ IdleUp /\ IdleImg /\ IdleOa /\ IdleFn /\ IdleFm /\ IdlePg

NextTT ==
    \/ UNCHANGED <<ins, run, up, img, oa, fn, fm, pg>> /\ \E texts \in Batches : GwStart(texts)
    \/ UNCHANGED <<ins, run, up, img, oa, fn, fm, pg>> /\ GwAhoFail
    \/ UNCHANGED <<ins, run, up, img, oa, fn, fm, pg>> /\ GwServiceFail
    \/ UNCHANGED <<ins, run, up, img, oa, fn, fm, pg>> /\ \E marker \in {NoLang} \cup MarkerCodes :
         \E order \in Perms(Len(gw.indices_mapping)) : GwCall(order, marker)
    \/ UNCHANGED <<ins, run, up, img, oa, fn, fm, pg>> /\ \E found \in MatchLists : GwParse(found)
    \/ UNCHANGED <<ins, run, up, img, oa, fn, fm, pg>> /\ GwCreate
    \/ UNCHANGED <<ins, run, up, img, oa, fn, fm, pg>> /\ GwWrite
    \/ UNCHANGED <<ins, run, up, img, oa, fn, fm, pg>> /\ \E lang \in TargetLangs : GwNew(lang)
    \/ UNCHANGED <<ins, run, up, img, oa, fn, fm, pg>> /\ \E phrase \in TextUniverse, marker \in {NoLang, "EN"} :
         RcLookup(phrase, marker)
    \/ UNCHANGED <<ins, run, up, img, oa, fn, fm, pg>> /\ RcSaveGet
    \/ UNCHANGED <<ins, run, up, img, oa, fn, fm, pg>> /\ RcCreate
    \/ UNCHANGED <<ins, run, up, img, oa, fn, fm, pg>> /\ RcWrite

SpecTT == InitTT /\ [][NextTT]_vars

InitIns == IdleTT /\ IdleIns /\ IdleRun /\ IdleUp /\ IdleImg /\ IdleOa /\ IdleFn /\ IdleFm /\ IdlePg

NextIns ==
    \/ UNCHANGED <<ttVars, run, up, img, oa, fn, fm, pg>> /\
         \E size10 \in SpanSizes10, is_big_block \in BOOLEAN, bullet \in BOOLEAN,
            w \in BoxWidths, h \in BoxHeights :
            InsStart(size10, is_big_block, bullet, w, h)
    \/ UNCHANGED <<ttVars, run, up, img, oa, fn, fm, pg>> /\ \E fits \in BOOLEAN : InsInsert(fits)
    \/ UNCHANGED <<ttVars, run, up, img, oa, fn, fm, pg>> /\ InsGrow

SpecIns == InitIns /\ [][NextIns]_vars

\* the thread that runs the call keeps running: each step of the loop that
\* can be taken is taken
SpecInsFair ==
    /\ InitIns
    /\ [][NextIns]_vars
    /\ WF_ins(\E fits \in BOOLEAN : InsInsert(fits))
    /\ WF_ins(InsGrow)

InitRun == IdleTT /\ IdleIns /\ IdleRun /\ IdleUp /\ IdleImg /\ IdleOa /\ IdleFn /\ IdleFm /\ IdlePg

NextRun ==
    \/ UNCHANGED <<ttVars, ins, up, img, oa, fn, fm, pg>> /\
         \E ext \in FileExtensions, pages \in 1..MaxPages : RunStart(ext, pages)
    \/ UNCHANGED <<ttVars, ins, up, img, oa, fn, fm, pg>> /\ \E ok \in BOOLEAN : RunConstruct(ok)
    \/ UNCHANGED <<ttVars, ins, up, img, oa, fn, fm, pg>> /\ \E ok \in BOOLEAN : RunOpen(ok)
    \/ UNCHANGED <<ttVars, ins, up, img, oa, fn, fm, pg>> /\ RunPage
    \/ UNCHANGED <<ttVars, ins, up, img, oa, fn, fm, pg>> /\ \E ok \in BOOLEAN : RunTranslate(ok)
    \/ UNCHANGED <<ttVars, ins, up, img, oa, fn, fm, pg>> /\ \E ok \in BOOLEAN : RunApply(ok)
    \/ UNCHANGED <<ttVars, ins, up, img, oa, fn, fm, pg>> /\ RunReport
    \/ UNCHANGED <<ttVars, ins, up, img, oa, fn, fm, pg>> /\ \E ok \in BOOLEAN : RunSave(ok)
    \/ UNCHANGED <<ttVars, ins, up, img, oa, fn, fm, pg>> /\ RunExcept

SpecRun == InitRun /\ [][NextRun]_vars

InitUpload == IdleTT /\ IdleIns /\ IdleRun /\ IdleUp /\ IdleImg /\ IdleOa /\ IdleFn /\ IdleFm /\ IdlePg

NextUpload ==
    \/ UNCHANGED <<ttVars, ins, run, img, oa, fn, fm, pg>> /\
         \E file_extension \in UploadExtensions, file_size_mb \in UploadSizes :
            upload_document(file_extension, file_size_mb)
    \/ UNCHANGED <<ttVars, ins, run, img, oa, fn, fm, pg>> /\ \E t \in up.threads : async_translate(t)
    \/ UNCHANGED <<ttVars, ins, run, img, oa, fn, fm, pg>> /\ \E t \in up.threads : ThreadEnd(t)

SpecUpload == InitUpload /\ [][NextUpload]_vars

InitImg == IdleTT /\ IdleIns /\ IdleRun /\ IdleUp /\ IdleImg /\ IdleOa /\ IdleFn /\ IdleFm /\ IdlePg

NextImg ==
    \/ UNCHANGED <<ttVars, ins, run, up, oa, fn, fm, pg>> /\
         \E image \in Images, outcome \in TranslateImageOutcomes :
            process_image_block(image, outcome)
    \/ UNCHANGED <<ttVars, ins, run, up, oa, fn, fm, pg>> /\ ImgNewRun

SpecImg == InitImg /\ [][NextImg]_vars

InitOa == IdleTT /\ IdleIns /\ IdleRun /\ IdleUp /\ IdleImg /\ IdleOa /\ IdleFn /\ IdleFm /\ IdlePg

NextOa ==
    \/ UNCHANGED <<ttVars, ins, run, up, img, fn, fm, pg>> /\
         \E max_retries \in MaxRetriesValues, ok \in BOOLEAN : OaCall(max_retries, ok)
    \/ UNCHANGED <<ttVars, ins, run, up, img, fn, fm, pg>> /\
         \E outcome \in AttemptOutcomes : OaAttempt(outcome)

SpecOa == InitOa /\ [][NextOa]_vars

\* the pure functions: one call on an input of the bounded sets
InitFn == IdleTT /\ IdleIns /\ IdleRun /\ IdleUp /\ IdleImg /\ IdleOa /\ IdleFn /\ IdleFm /\ IdlePg

NextFn ==
    \/ FnFindFontPath /\ UNCHANGED <<ttVars, ins, run, up, img, oa, fm, pg>>
    \/ FnMerge /\ UNCHANGED <<ttVars, ins, run, up, img, oa, fm, pg>>
    \/ FnNormalizeColor /\ UNCHANGED <<ttVars, ins, run, up, img, oa, fm, pg>>
    \/ FnNormalizeTuple /\ UNCHANGED <<ttVars, ins, run, up, img, oa, fm, pg>>
    \/ FnRotation /\ UNCHANGED <<ttVars, ins, run, up, img, oa, fm, pg>>

SpecFn == InitFn /\ [][NextFn]_vars

\* the callers of supports_cyrillic
InitFm == IdleTT /\ IdleIns /\ IdleRun /\ IdleUp /\ IdleImg /\ IdleOa /\ IdleFn /\ IdleFm /\ IdlePg

NextFm ==
    \/ UNCHANGED <<ttVars, ins, run, up, img, oa, fn, pg>> /\
         \E t \in Callers, path \in MemoPaths : FmCall(t, path)
    \/ UNCHANGED <<ttVars, ins, run, up, img, oa, fn, pg>> /\
         \E t \in Callers, raises \in BOOLEAN : FmRead(t, raises)
    \/ UNCHANGED <<ttVars, ins, run, up, img, oa, fn, pg>> /\
         \E t \in Callers : FmStore(t)

SpecFm == InitFm /\ [][NextFm]_vars

\* the units of a page
InitPg == IdleTT /\ IdleIns /\ IdleRun /\ IdleUp /\ IdleImg /\ IdleOa /\ IdleFn /\ IdleFm /\ IdlePg

NextPg ==
    \/ UNCHANGED <<ttVars, ins, run, up, img, oa, fn, fm>> /\ \E blocks \in Pages : PgCollect(blocks)
    \/ UNCHANGED <<ttVars, ins, run, up, img, oa, fn, fm>> /\ \E kept \in SUBSET (1..4) : PgTranslate(kept)
    \/ UNCHANGED <<ttVars, ins, run, up, img, oa, fn, fm>> /\ PgRaise
    \/ UNCHANGED <<ttVars, ins, run, up, img, oa, fn, fm>> /\ PgApplyBlock
    \/ UNCHANGED <<ttVars, ins, run, up, img, oa, fn, fm>> /\ PgNextPage

SpecPg == InitPg /\ [][NextPg]_vars

(***************************************************************************)
(* Claims about the gateway and the phrase cache, under SpecTT.            *)
(***************************************************************************)
\* the positions of the batch that were sent to the service
SentPositions == {gw.indices_mapping[j] : j \in 1..Len(gw.indices_mapping)}

\* the response entries of a placeholder are all empty or white space
OnlyBlankEntries(ms) == \A n \in 1..Len(ms) : Strip(ms[n]) = EmptyStr

\* the first entry with content, stripped
FirstContent(ms) ==
    Strip(ms[CHOOSE n \in 1..Len(ms) :
                /\ Strip(ms[n]) # EmptyStr
                /\ \A m \in 1..(n - 1) : Strip(ms[m]) = EmptyStr])

\* the result the code owes position i once the call returned
OwedResult(i) ==
    IF i \in SentPositions
    THEN IF OnlyBlankEntries(gw.matches[i]) THEN gw.texts[i]
         ELSE FirstContent(gw.matches[i])
    ELSE IF NonTranslatable(gw.texts[i]) THEN gw.texts[i]
    ELSE apply_format(gw.lang, (CHOOSE r \in gw.lookup[i] : TRUE).tr, gw.texts[i])

(* C1 -- for every batch of N texts, every phrase-cache content and every  *)
(* text the service returns, translate_texts returns a list of exactly N   *)
(* strings, none of them None, position i holding the result of input i    *)
(* (its parsed translation, its cached translation or the text itself).    *)
(* Stated here granting the claim two things it does not cover: a service  *)
(* call that raises, and the phrase search raising on an empty automaton.  *)
C1_ReturnsNStringsInOrder ==
    /\ gw.pc = "raised" => gw.err \in {"ServiceError", "AttributeError"}
    /\ gw.pc = "done" =>
          /\ Len(gw.all_texts) = Len(gw.texts)
          /\ \A i \in 1..Len(gw.texts) :
                /\ gw.all_texts[i] # NoneStr
                /\ gw.all_texts[i] = OwedResult(i)

(* C2 -- a unit whose (target language, text) has an entry in the phrase   *)
(* cache is served from the cache and is not sent to the service; when     *)
(* every translatable unit is a hit the service is not called.  Stated     *)
(* for translatable units and entries that hold a translation, the cached  *)
(* phrase being returned in the format of the original (apply_format).     *)
HasCachedTranslation(i) ==
    /\ ~NonTranslatable(gw.texts[i])
    /\ \E r \in gw.lookup[i] : r.tr # EmptyStr

\* the cache lookup of unit i raised (objects.get found several rows)
LookupRaised(i) ==
    /\ gw.pc = "raised" /\ gw.calls = 0
    /\ gw.err = "MultipleObjectsReturned"
    /\ Cardinality(gw.lookup[i]) > 1

C2_CacheHitServedWithoutCall ==
    gw.pc # "idle" =>
      /\ \A i \in 1..Len(gw.texts) : HasCachedTranslation(i) =>
            /\ ~LookupRaised(i)
            /\ i \notin SentPositions
            /\ gw.all_texts # <<>> =>
                  \E r \in gw.lookup[i] :
                      gw.all_texts[i] = apply_format(gw.lang, r.tr, gw.texts[i])
      /\ (\A i \in 1..Len(gw.texts) :
              NonTranslatable(gw.texts[i]) \/ HasCachedTranslation(i))
            => gw.calls = 0

C4_MissingEntryFallsBack ==
    /\ gw.pc = "done" =>
          \A i \in SentPositions :
              IF OnlyBlankEntries(gw.matches[i])
              THEN gw.all_texts[i] = gw.texts[i]
              ELSE gw.all_texts[i] = FirstContent(gw.matches[i])
    /\ (gw.pc = "raised" /\ gw.k >= 1) =>
          ~OnlyBlankEntries(gw.matches[gw.prompt[gw.k].index])

\* a returned call of two sent units: one whose entries were blank, which
\* got its original text, the other translated
C4_Witness ==
    /\ gw.pc = "done"
    /\ \E i, j \in SentPositions :
          /\ gw.matches[i] = <<TrBlank>>
          /\ gw.all_texts[i] = gw.texts[i]
          /\ ~OnlyBlankEntries(gw.matches[j])
          /\ gw.all_texts[j] = TrLower

(***************************************************************************)
(* Claims about the Layout Reinserter, under SpecIns and SpecInsFair.      *)
(***************************************************************************)
(* C5 -- a unit whose translated text did not fit its box at the initial   *)
(* font size ends in one of two ways: inserted with a font size below the  *)
(* initial one and above the floor, or given up (reported as not inserted) *)
(* because the floor was reached.                                          *)
C5_OverflowShrinksOrFails ==
    (ins.pc = "done" /\ ins.overflowed) =>
        \/ /\ ins.outcome = "inserted"
           /\ ins.font_size < ins.initial_font_size
           /\ ins.font_size > min_font_size
        \/ /\ ins.outcome = "unable"
           /\ ins.font_size <= min_font_size

(* C6 -- the retry loop of _apply_translated_text terminates for every     *)
(* unit, whatever results the insertion attempts return: a call that has   *)
(* entered the loop eventually leaves it.                                  *)
C6_InsertionLoopTerminates == (ins.pc = "attempt") ~> (ins.pc = "done")

(***************************************************************************)
(* Claims about a run, under SpecRun.                                      *)
(***************************************************************************)
(* C7 -- whenever Document.translate fails with an exception (while        *)
(* constructing the translator, while translating a page, or while         *)
(* saving), the progress record is rewritten with error = true and the     *)
(* error message, and the original exception is re-raised to the caller.   *)
C7_FailureRecordedAndReraised ==
    run.pc = "failed" =>
        /\ run.progress_file # <<>>
        /\ run.progress_file[1].error
        /\ run.progress_file[1].error_message = run.pending
        /\ run.raised = run.pending

\* the progress reports of the run, in the order they were written
Reports ==
    LET IsProgress(e) == e.ev = "progress"
    IN  SelectSeq(run.log, IsProgress)

(* C8 -- in a run over N pages that has not failed, the progress reports   *)
(* written are (0,N), (1,N), ..., (N,N) in this order (all of them once    *)
(* the run is done); work on page k starts right after the report of page  *)
(* k-1, and the report of page k follows the application of page k's texts. *)
C8_ProgressInPageOrder ==
    run.pc # "failed" =>
        /\ Len(Reports) <= run.pages + 1
        /\ \A i \in 1..Len(Reports) :
              Reports[i].data = progress_data(i - 1, run.pages, FALSE, "")
        /\ run.pc = "done" => Len(Reports) = run.pages + 1
        /\ \A i \in 1..Len(run.log) :
              CASE run.log[i].ev = "begin" ->
                      /\ i > 1
                      /\ run.log[i - 1].ev = "progress"
                      /\ run.log[i - 1].data.current_page = run.log[i].page - 1
                [] run.log[i].ev = "applied" ->
                      /\ run.log[i - 1].ev = "begin"
                      /\ run.log[i - 1].page = run.log[i].page
                [] OTHER ->
                      i > 1 => /\ run.log[i - 1].ev = "applied"
                               /\ run.log[i - 1].page = run.log[i].data.current_page

\* a finished run over three pages with all its reports written
C8_Witness ==
    /\ run.pc = "done"
    /\ run.pages = 3
    /\ Len(Reports) = 4
    /\ Reports[4].data = progress_data(3, 3, FALSE, "")

(***************************************************************************)
(* Claims about the upload view, under SpecUpload.                         *)
(***************************************************************************)
(* C10 -- for any sequence of upload requests, each accepted upload        *)
(* creates a new Document and starts exactly one thread that translates    *)
(* it, a rejected upload starts none, and no document is ever translated   *)
(* by two threads.                                                         *)
C10_OneThreadPerDocument ==
    /\ \A t1, t2 \in up.threads : t1.document = t2.document => t1 = t2
    /\ \A n \in 1..Len(up.requests) :
          IF up.requests[n].success
          THEN /\ up.requests[n].document_id \in up.documents
               /\ \A m \in 1..Len(up.requests) :
                     (m # n /\ up.requests[m].success) =>
                         up.requests[m].document_id # up.requests[n].document_id
               /\ Cardinality({t \in up.threads :
                                 t.document = up.requests[n].document_id}) = 1
          ELSE ~\E t \in up.threads : t.request = n
    /\ \A t \in up.threads : t.document \in up.documents

\* two uploads were answered while the thread of the first is still
\* translating and the thread of the second has not yet begun
C10_Witness ==
    /\ Len(up.requests) >= 2
    /\ \E t1, t2 \in up.threads :
          /\ t1.document # t2.document
          /\ t1.pc = "translating"
          /\ t2.pc = "started"
          /\ up.requests[t1.request].success
          /\ up.requests[t2.request].success

(***************************************************************************)
(* Claims about image blocks, under SpecImg.                               *)
(***************************************************************************)
(* C11 -- within one PDFTranslator, the image translation returns a result *)
(* at most once per content hash, and an image block whose bytes were       *)
(* translated before reuses the cached path without a translation call.    *)
C11_ImageTranslatedOncePerHash ==
    /\ \A t1, t2 \in img.translations :
          t1.image_hash = t2.image_hash => t1 = t2
    /\ \A t \in img.translations :
          \E n \in 1..Len(img.image_cache) :
              img.image_cache[n].image_hash = t.image_hash
    /\ (img.last.image_hash # <<>> /\ img.last.block_was_translated) =>
          /\ ~img.last.called
          /\ img.last.inserted = TranslatedImagePath

\* a later block with the bytes of an already translated image was served
\* from the cache, after a translation of another image
C11_Witness ==
    /\ img.last.hit
    /\ img.last.block_was_translated
    /\ ~img.last.called
    /\ Cardinality(img.translations) = 2

(***************************************************************************)
(* Claims about the OpenAI image translator, under SpecOa.                 *)
(***************************************************************************)
\* every attempt of the log before position n failed
AllFailedBefore(n) == \A m \in 1..(n - 1) : oa.log[m] # "ok"

C13_ServiceFailureRetriedByCaller ==
    run.pending = "translate_texts" =>
        /\ run.service_errors = run.tt_calls
        /\ run.tt_calls > 1

(* C14 -- for every font name and every content of the fonts directory,   *)
(* find_font_path returns a path (the default font's or that of a file of  *)
(* the directory, never None); when no file reaches the minimum match      *)
(* score of 1 the path is the default font's, Arial.ttf in the fonts       *)
(* directory.                                                              *)
C14_FontPathAlwaysReturned ==
    fn.name = "find_font_path" =>
        LET dirs   == fn.input.dirs
            nfont  == normalized_fontname(fn.input.fontname)
            Found  == {[root |-> k, file |-> dirs[k][n]] :
                          <<k, n>> \in
                             {kn \in (1..MaxDirs) \X (1..MaxFiles) :
                                 kn[1] <= Len(dirs) /\ kn[2] <= Len(dirs[kn[1]])}}
        IN  /\ fn.result # NoPath
            /\ fn.result \in Found \cup {DefaultFontPath}
            /\ (\A f \in Found : match_score(nfont, f.file) < 1)
                  => fn.result = DefaultFontPath

\* a directory with a font file that does not match the name, and with a
\* file that is no font
C14_Witness ==
    /\ fn.name = "find_font_path"
    /\ fn.input.fontname = FontZapf
    /\ fn.input.dirs = <<<<FileTimesItalic, FileNotes>>>>
    /\ fn.result = DefaultFontPath

\* the blocks of a list that have 'type', 'lines' and 'bbox'
IsTextBlock(block) == {"type", "lines", "bbox"} \subseteq block.keys

\* the lines of a list of blocks, in order
RECURSIVE AllLines(_)
AllLines(blocks) ==
    IF blocks = <<>> THEN <<>> ELSE Head(blocks).lines \o AllLines(Tail(blocks))

\* the non-whitespace spans of a block
TextSpans(block) ==
    {sp \in UNION {{block.lines[l].spans[k] : k \in 1..Len(block.lines[l].spans)} :
                      l \in 1..Len(block.lines)} :
        \E c \in 1..Len(sp.text) : sp.text[c] \notin {" ", "\n", "\t"}}

\* the condition of the claim on an earlier and a later block
Continues(earlier, later) ==
    /\ TextSpans(earlier) # {}
    /\ TextSpans(later) # {}
    /\ \E s1 \in TextSpans(earlier), s2 \in TextSpans(later) :
          /\ s1.font = s2.font
          /\ s1.size - s2.size < 50 /\ s2.size - s1.size < 50
          /\ s2.bbox[2] < s1.bbox[4] + 1

C16_NormalizeColorIdempotent ==
    fn.name = "normalize_color" =>
        /\ normalize_color(fn.result) = fn.result
        /\ (fn.input.kind = "int" /\ fn.input.value = 16711680) =>
              fn.result = ColorTuple(<<ColorUnit, 0, 0>>)

\* the distance on the circle between two angles in hundredths of a degree
CircleDistance(a, b) ==
    LET d == (a - b) % 36000 IN IF d > 18000 THEN 36000 - d ELSE d

(* C17 -- for every direction vector calculate_rotation_angle returns one  *)
(* of 0, 90, 180, 270, never None: a right angle nearest to the rotation   *)
(* of the vector, which is the negated angle of atan2(dy, dx); (1, 0)      *)
(* gives 0, and (0, 1) and (0, -1) give rotations 180 degrees apart.       *)
C17_SnapsToNearestRightAngle ==
    fn.name = "calculate_rotation_angle" =>
        LET rotation == (0 - Atan2Degrees[fn.input]) % 36000
        IN  /\ fn.result \in {0, 90, 180, 270}
            /\ \A other \in {0, 90, 180, 270} :
                  CircleDistance(rotation, fn.result * 100)
                      <= CircleDistance(rotation, other * 100)
            /\ fn.input = <<1, 0>> => fn.result = 0
            /\ fn.input = <<0, 1>> => fn.result = 270
            /\ fn.input = <<0, 0 - 1>> => fn.result = 90

\* a vector at 26.57 degrees below the negative x axis, in the sector of 180
C17_Witness ==
    /\ fn.name = "calculate_rotation_angle"
    /\ fn.input = <<0 - 2, 0 - 1>>
    /\ fn.result = 180

(* C18 -- a run on a document whose file type is not supported fails with  *)
(* the unsupported-file-type error, which the caller receives and the      *)
(* progress record holds (error = true), before any processing: no         *)
(* translator is constructed, no page is begun and no translate_texts call *)
(* is made.                                                                *)
C18_UnsupportedTypeReported ==
    (run.file_extension # ".pdf" /\ run.pc = "failed") =>
        /\ run.raised = "ValueError"
        /\ run.progress_file = <<progress_data(0, 0, TRUE, "ValueError")>>
        /\ ~run.translator
        /\ run.tt_calls = 0
        /\ \A n \in 1..Len(run.log) : run.log[n].ev = "progress"

\* in the gateway state g and the table c: every sent unit with a short
\* translation has exactly one row of its key, which holds that translation
\* (so that objects.get finds it and a lookup of the text is a hit)
ShortTranslationsCached(g, c) ==
    \A j \in 1..Len(g.indices_mapping) :
        LET i    == g.indices_mapping[j]
            rows == {r \in c : r.tgt = g.lang /\ r.phrase = g.texts[i]}
        IN  (~OnlyBlankEntries(g.matches[i])
                /\ WordCount(FirstContent(g.matches[i])) <= 7) =>
                /\ Cardinality(rows) = 1
                /\ \A r \in rows : r.tr = FirstContent(g.matches[i])

(* C19 -- at the moment translate_texts returns after a service call, for  *)
(* every unit whose translation came from the service and has at most 7    *)
(* words the phrase cache holds a row for (target language, unit text)     *)
(* with that translation, and a lookup of the text is a cache hit.         *)
C19_ShortTranslationsCached ==
    [][(gw.pc # "done" /\ gw'.pc = "done" /\ gw'.calls = 1)
          => ShortTranslationsCached(gw', cache')]_vars

(* C20 -- a unit ends FAILED (reported as not inserted) only after an      *)
(* insertion attempt was made and failed and the font size was reduced     *)
(* step by step from an initial size at or above the floor of 3 to below   *)
(* it; no unit is FAILED without an attempt; the region of a FAILED unit   *)
(* has been redacted.                                                      *)
C20_FailedOnlyAfterDegradation ==
    (ins.pc = "done" /\ ins.outcome = "unable") =>
        /\ ins.overflowed
        /\ ins.initial_font_size >= min_font_size
        /\ ins.font_size < min_font_size
        /\ ins.redacted

\* the smaller of two numbers
Smaller(a, b) == IF a < b THEN a ELSE b

\* the frame of a growth step: which of width and height changes
GrowsWidth == ins.bullet /\ ins.width < PageWidth - PageMargin

(* C21 -- after a failed insertion attempt, if the block starts with a     *)
(* bullet and the box is narrower than the page width minus the margin,    *)
(* only the width grows, by a fixed percentage of its current width (the   *)
(* first growth of a call, where the current width is the initial one,     *)
(* fixes the percentage at 5) and never beyond the page width minus the    *)
(* margin; otherwise only the height grows; font size unchanged; the box   *)
(* never shrinks.                                                          *)
C21_GrowsByPercentOfCurrentWidth ==
    [][ins.pc = "grow" =>
          /\ ins'.font_size = ins.font_size
          /\ ins'.width >= ins.width /\ ins'.height >= ins.height
          /\ IF GrowsWidth
             THEN /\ ins'.height = ins.height
                  /\ ins'.width * 100 =
                        Smaller(ins.width * (100 + StepPercent),
                                (PageWidth - PageMargin) * 100)
             ELSE /\ ins'.width = ins.width
                  /\ ins'.height > ins.height \/ ins'.height = MaxHeight]_vars

(* C21, amended -- as above, the width growing by a fixed step, 5 percent  *)
(* of the width the box had when the retry loop was entered, and the       *)
(* height by 5 percent of the height it had then (up to the height bound   *)
(* of the model).                                                          *)
C21_GrowsByFixedStep ==
    [][ins.pc = "grow" =>
          /\ ins'.font_size = ins.font_size
          /\ ins'.width >= ins.width /\ ins'.height >= ins.height
          /\ ins'.width <= PageWidth - PageMargin \/ ins'.width = ins.width
          /\ ins'.width_increase_step = ins.width_increase_step
          /\ ins'.height_increase_step = ins.height_increase_step
          /\ IF GrowsWidth
             THEN /\ ins'.height = ins.height
                  /\ ins'.width > ins.width
                  /\ ins'.width = Smaller(ins.width + ins.width_increase_step,
                                          PageWidth - PageMargin)
             ELSE /\ ins'.width = ins.width
                  /\ ins'.height = Smaller(ins.height + ins.height_increase_step,
                                           MaxHeight)]_vars

\* a bullet block widened to 300 + 15 * 5 = 375 and then to the limit of 380
C21_Witness ==
    /\ ins.bullet /\ ins.overflowed
    /\ ins.width_increase_step = 15
    /\ ins.width = PageWidth - PageMargin
    /\ ins.pc = "attempt"

\* the files of the walk of a find_font_path call, as paths
WalkedFiles(dirs) ==
    {[root |-> kn[1], file |-> dirs[kn[1]][kn[2]]] :
        kn \in {x \in (1..MaxDirs) \X (1..MaxFiles) :
                   x[1] <= Len(dirs) /\ x[2] <= Len(dirs[x[1]])}}

(* C22 -- when find_font_path returns a font other than the default, no    *)
(* file anywhere in the tree of the fonts directory, nested directories    *)
(* included, has a strictly higher match score for the name.               *)
C22_ReturnsHighestScoreOfTree ==
    (fn.name = "find_font_path" /\ fn.result # DefaultFontPath) =>
        \A f \in WalkedFiles(fn.input.dirs) :
            match_score(normalized_fontname(fn.input.fontname), f.file)
                <= match_score(normalized_fontname(fn.input.fontname),
                               fn.result.file)

(* C23 -- for a target language written in Cyrillic the path that          *)
(* find_font_path returns is the default font's or that of a file whose    *)
(* character map has a code point in U+0400..U+04FF.                       *)
C23_CyrillicFontOrDefault ==
    (fn.name = "find_font_path" /\ fn.input.language = "RU") =>
        \/ fn.result = DefaultFontPath
        \/ fn.result.file \in {FileArial, FileArialBold}

\* the best match of the name is a font without Cyrillic letters
C23_Witness ==
    /\ fn.name = "find_font_path"
    /\ fn.input.language = "RU"
    /\ fn.input.fontname = FontTimesItalic
    /\ fn.input.dirs = <<<<FileNotes, FileTimesItalic>>>>
    /\ fn.result = DefaultFontPath

(* C24 -- once supports_cyrillic has returned a value for a font path the  *)
(* memo entry of the path is that value from then on, every later return   *)
(* for the path gives the same value, and a call made after the first      *)
(* return does not read the font file: for every instance and every        *)
(* interleaving of the callers.                                            *)
C24_MemoNeverChanges ==
    \A path \in MemoPaths :
        fm.returned[path] # "none" =>
            /\ fm.memo[path] = fm.returned[path]
            /\ fm.last[path] = fm.returned[path]
            /\ \A t \in Callers :
                  (fm.caller[t].path = path /\ fm.caller[t].after_return)
                      => fm.caller[t].pc = "idle"

(* C25 -- if the phrase cache held an entry without a source language for  *)
(* a text of the batch, then when a translate_texts call that made a       *)
(* service call and knows the detected source language returns, the entry  *)
(* has that source language and a non-empty translated phrase.             *)
C25_SourceLanguageBackfilled ==
    (gw.pc = "done" /\ gw.calls = 1 /\ gw.source_language # NoLang) =>
        \A i \in 1..Len(gw.texts) :
            \A r \in gw.lookup[i] :
                r.src = NoLang =>
                    \E now \in cache : /\ now.id = r.id
                                       /\ now.src = gw.source_language
                                       /\ now.tr # EmptyStr

UnitAtOwnPlace(u) ==
    \E b \in 1..Len(pg.merged_blocks) :
        LET spans == SpansOf(pg.merged_blocks[b].lines)
        IN  IF u.is_big_block
            THEN /\ u.bbox = pg.merged_blocks[b].bbox
                 /\ u.own_text = Strip(BlockText(spans))
            ELSE \E s \in 1..Len(spans) : /\ u.bbox = spans[s].bbox
                                          /\ u.own_text = Strip(spans[s].text)

(* C27 -- on every page the units placed by _apply_translated_texts are   *)
(* the units collected by translate_pdf, in the same order: the k-th      *)
(* placed unit has the k-th collected text, takes the k-th returned       *)
(* translation and is drawn at its own rectangle, whatever the outcome of *)
(* the units before it; when the page is done every translation has been  *)
(* taken once.                                                             *)
C27_CollectedUnitsAreThePlacedUnits ==
    pg.pc \in {"translated", "done"} =>
        /\ Len(pg.translated_texts) = Len(pg.page_texts)
        /\ Len(pg.placed) <= Len(pg.page_texts)
        /\ pg.pc = "done" => Len(pg.placed) = Len(pg.page_texts)
        /\ \A k \in 1..Len(pg.placed) :
              LET u == pg.placed[k]
              IN  /\ k <= Len(pg.page_texts)
                  /\ u.own_text = pg.page_texts[k]
                  /\ u.text_index = k - 1
                  /\ u.from_translation
                  /\ u.translated_text =
                        IF u.is_big_block /\ BulletCount(pg.translated_texts[k]) > 1
                        THEN split_bullet_points(pg.translated_texts[k])
                        ELSE pg.translated_texts[k]
                  /\ UnitAtOwnPlace(u)

\* a finished page on which a unit was skipped for its bbox or given up and
\* a later unit got its translation
C27_Witness ==
    /\ pg.pc = "done"
    /\ \E j, k \in 1..Len(pg.placed) :
          /\ j < k
          /\ pg.placed[j].outcome \in {"invalid_bbox", "unable"}
          /\ pg.placed[k].outcome = "inserted"
          /\ pg.placed[k].translated_text # pg.placed[k].own_text

\* a call of _apply_translated_text was made for a unit that holds the span
InsertionAttempted(span) ==
    \E k \in 1..Len(pg.placed) :
        \E c \in pg.placed[k].covers :
            SpansOf(pg.merged_blocks[c[1]].lines)[c[2]] = span

(* C28 -- when a page is done, every non-whitespace span of a redacted    *)
(* text block belongs to a unit for which an insertion was attempted (the *)
(* unit may then have been skipped for its bbox or given up).              *)
C28_RedactedSpansReinserted ==
    pg.pc = "done" =>
        \A i \in 1..Len(pg.blocks) :
            (pg.blocks[i].type = 0 /\ pg.blocks[i].bbox \in pg.redacted) =>
                \A s \in 1..Len(SpansOf(pg.blocks[i].lines)) :
                    LET span == SpansOf(pg.blocks[i].lines)[s]
                    IN  Strip(span.text) # <<>> => InsertionAttempted(span)

\* every row of c that holds a translated phrase holds the same one in d
TranslationsKept(c, d) ==
    \A r \in c : r.tr # EmptyStr => \E now \in d : now.id = r.id /\ now.tr = r.tr

(* C29 -- no step of a translate_texts call or of save_translated_phrase, *)
(* in this run or in another one, changes the translated phrase of a      *)
(* cache entry that holds one.                                             *)
C29_TranslatedPhraseNeverChanges ==
    [][TranslationsKept(cache, cache')]_vars

(* C30 -- the list translate_texts returns does not depend on the order  *)
(* the shuffle gave the prompt: every placeholder carries the original    *)
(* position of its text, each sent position has exactly one placeholder,  *)
(* and the returned list is determined by the batch, the cache lookups    *)
(* and the response entries of each position.                              *)
C30_ResultIndependentOfShuffle ==
    (gw.calls = 1 /\ gw.pc \in {"parse", "save_create", "save_write", "done"}) =>
        /\ \A j \in 1..Len(gw.prompt) :
              /\ gw.prompt[j].index \in SentPositions
              /\ gw.prompt[j].text = gw.texts[gw.prompt[j].index]
              /\ \A l \in 1..Len(gw.prompt) :
                    gw.prompt[l].index = gw.prompt[j].index => l = j
        /\ \A i \in SentPositions : \E j \in 1..Len(gw.prompt) : gw.prompt[j].index = i
        /\ gw.pc = "done" =>
              \A i \in 1..Len(gw.texts) : gw.all_texts[i] = OwedResult(i)

\* a returned call whose prompt listed the second unit before the first,
\* the two units getting different results from the response
C30_Witness ==
    /\ gw.pc = "done"
    /\ gw.calls = 1
    /\ Len(gw.prompt) = 2
    /\ gw.prompt[1].index > gw.prompt[2].index
    /\ gw.texts[1] # gw.texts[2]
    /\ gw.all_texts[1] = TrLower
    /\ gw.all_texts[2] = TrLong

(***************************************************************************)
(* C9 -- the phrase cache holds at most one entry per                      *)
(* (target_language, source_phrase), in every reachable state, also when   *)
(* two runs save the same phrase concurrently.                             *)
(***************************************************************************)
C9_OneEntryPerKey ==
    \A r1, r2 \in cache :
        (r1.tgt = r2.tgt /\ r1.phrase = r2.phrase) => r1 = r2

====
